---- MODULE Spec2Model ----
(***************************************************************************)
(* A model of the gamebattle backend: the Elo rating engine and the        *)
(* preference stores that feed it, the pairing strategies, the replayable  *)
(* output stream of a container, the session manager and the launcher's    *)
(* file intake.                                                            *)
(*                                                                         *)
(* Floating point is modelled by fixed point: a rating is an integer       *)
(* number of thousandths of a point, a score (first_score, an expected     *)
(* score) an integer number of thousandths.  Every operation rounds, as    *)
(* the floating point operations of the source do, so that two ways of     *)
(* computing the same real number may differ in the last digit.            *)
(***************************************************************************)
EXTENDS Integers, Sequences, FiniteSets, Bags, TLC

VARIABLES
    \* EloRatingSystem
    initial,        \* the constructor's `initial`, in thousandths of a point
    ratings,        \* team_id -> rating (thousandths of a point)
    runs,           \* team_id -> number of counted preferences
    seen_games,     \* author -> set of team_ids
    excluded,       \* ReportStore: the excluded_games set
    reports,        \* ReportStore: team_id -> sequence of report authors
    \* PreferenceStore (RAMPreferenceStore or RedisPreferenceStore)
    store_kind,     \* "ram" or "redis"
    preferences,    \* sequence of [key, value, owns] in insertion order
    bound,          \* whether the rating system is in rating_systems
    now,            \* the wall clock (time.time())
    \* ReplayableStream
    items,          \* _items
    closed,         \* _closed
    sub,            \* subscriber -> [pc, idx, queue, seen, at]
    \* Manager
    sessions,       \* session id -> [owner, games, launch_time]
    launching,      \* the create_session calls suspended in Session.launch
    created,        \* how many session ids have been drawn
    alive,          \* <<session id, position>> of the games whose container lives
    over,           \* <<session id, position>> of the games whose over flag is set
    catalogue,      \* launcher.games: the team ids of the games, in order
    socket,         \* one WebSocket of GamebattleApi.ws and its two tasks
    calls,          \* the calls of the Redis store's set and delete in flight
    replacing,      \* the replace_game calls in flight, as a bag
    container,      \* one Container of container.py: its fields and its tasks
    \* Launcher file intake
    files,          \* the team's stored files: size -> number of files
    \* the last operation and its outcome
    last

vars == <<initial, ratings, runs, seen_games, excluded, reports, store_kind,
          preferences, bound, now, items, closed, sub, sessions, launching,
          created, alive, over, catalogue, socket, calls, replacing, container, files, last>>

eloVars == <<initial, ratings, runs, seen_games>>
reportVars == <<excluded, reports>>
storeVars == <<store_kind, preferences, bound>>
streamVars == <<items, closed, sub>>
managerVars == <<sessions, launching, created, alive>>
sessionVars == <<sessions, created, alive, over>>

----------------------------------------------------------------------------
(* Bounds of the model *)

MaxClock == 3          \* preferences created in one behaviour
MaxKeys == 2           \* session ids used as preference keys
LowInitial == 0        \* the low `initial` an engine may be built with (points)
MaxItems == 3          \* items appended to one stream
MaxSubs == 2           \* subscribers of one stream
MaxCapacity == 5       \* the capacity asked of a pairing strategy
MaxVotes == 1          \* preferences registered before a pairing
MaxReports == 2        \* reports stored before a pairing
MaxSessions == 2       \* session ids drawn by one manager
MaxLaunching == 2      \* create_session calls in flight at once
MaxTime == 2           \* ticks of the wall clock
MaxIndex == 2          \* game indexes from -MaxIndex - 1 to MaxIndex
MaxStops == 2          \* calls of Container.stop on one container
MaxWrites == 1         \* messages written to a container's input
MaxResizes == 1        \* resize calls that reach the daemon
MaxOutput == 2         \* messages read from one container
MaxReceivers == 1      \* consumers of one container's output
MaxReplacing == 2      \* replace_game calls in flight at once
MaxPlayed == 1         \* sessions created before a vote
MaxRated == 1          \* preferences written by set_preference
MaxRounds == 3         \* vote-then-new-session rounds
MaxCalls == 3          \* calls of set and delete on the Redis store in a behaviour
MaxNameParts == 2      \* components of a file name made of the sample components

(* Program constants *)

DefaultK == 32
DefaultInitial == 1000
max_sessions_per_user == 1
max_files == 64
max_file_bytes == 128 * 1024
max_component_length == 255
max_components == 10
\* The lifetime of a session, in ticks of the clock
session_ttl == 2

Teams == {"A", "B", "C"}
Authors == {"v1", "v2"}
Keys == 1..MaxKeys
Scores == {0, 500, 1000}

\* TeamManager.teams: v1 is a member of team A, v2 of no team.
member_emails == [t \in Teams \cup {"D"} |-> IF t = "A" THEN {"v1"} ELSE {}]

\* Launcher.games: the catalogue, in list order.
launcher_games == catalogue

----------------------------------------------------------------------------
(* Helpers *)

Get(f, x, d) == IF x \in DOMAIN f THEN f[x] ELSE d

Min(S) == CHOOSE x \in S : \A y \in S : x <= y

Abs(x) == IF x < 0 THEN -x ELSE x

Range(s) == {s[i] : i \in DOMAIN s}

----------------------------------------------------------------------------
(* EloRatingSystem *)

\* 1000 * 10 ** (2 ** (i - 1) / 400), rounded.
PowTable == <<1006, 1012, 1023, 1047, 1096, 1202, 1445, 2089, 4365>>

RECURSIVE pow10_bits(_, _)
pow10_bits(r, i) ==
    IF r = 0 THEN 1000
    ELSE LET rest == pow10_bits(r \div 2, i + 1)
         IN  IF r % 2 = 1 THEN (rest * PowTable[i]) \div 1000 ELSE rest

\* 1000 * 10 ** (x / 400) for a whole number x >= 0 of points.
pow10(x) ==
    LET c == IF x > 1999 THEN 1999 ELSE x
        q == c \div 400
        f == pow10_bits(c % 400, 1)
    IN  CASE q = 0 -> f
          [] q = 1 -> f * 10
          [] q = 2 -> f * 100
          [] q = 3 -> f * 1000
          [] OTHER -> f * 10000

\* 1 / (1 + 10 ** ((other - game) / 400)), in thousandths.
expected_score_of(rgame, rother) ==
    LET d == rother - rgame
        p == IF d >= 0 THEN pow10(d \div 1000)
             ELSE 1000000 \div pow10((-d) \div 1000)
    IN  1000000 \div (1000 + p)

\* The ratings after `if game not in self.ratings: self.ratings[game] = initial`.
with_initial(r, games, init) ==
    [g \in DOMAIN r \cup {games[1], games[2]} |-> Get(r, g, init)]

not_normalized(r) == r

\* `if min_score < 0: for game in ratings: ratings[game] -= min_score`
normalize(r) ==
    LET m == Min({r[g] : g \in DOMAIN r})
    IN  IF m < 0 THEN [g \in DOMAIN r |-> r[g] - m] ELSE r

add_seen_games(seen, owner, games) ==
    [a \in DOMAIN seen \cup {owner} |->
        IF a = owner THEN Get(seen, owner, {}) \cup {games[1], games[2]}
        ELSE seen[a]]

\* `any(g in author_rated for g in preference.games)`
any_rated_first(author_rated, games) == games[1] \in author_rated

any_rated(author_rated, games) ==
    games[1] \in author_rated \/ games[2] \in author_rated

\* register counting a run for the first game only
register_one_run(e, init, p, owns_game) ==
    LET author_rated == Get(e.seen_games, p.author, {})
        already_rated == any_rated(author_rated, p.games)
        seen2 == add_seen_games(e.seen_games, p.author, p.games)
        a == p.games[1]
        b == p.games[2]
        r1 == with_initial(e.ratings, p.games, init)
        ea == expected_score_of(r1[a], r1[b])
        eb == expected_score_of(r1[b], r1[a])
        ra == [r1 EXCEPT ![a] = @ + DefaultK * (p.first_score - ea)]
        r2 == [ra EXCEPT ![b] = @ + DefaultK * ((1000 - p.first_score) - eb)]
        n2 == [g \in DOMAIN e.runs \cup {a} |->
                 IF g = a THEN Get(e.runs, g, 0) + 1 ELSE e.runs[g]]
    IN  IF owns_game \/ already_rated
        THEN [ratings |-> e.ratings, runs |-> e.runs, seen_games |-> seen2,
              counted |-> FALSE]
        ELSE [ratings |-> normalize(r2), runs |-> n2, seen_games |-> seen2,
              counted |-> TRUE]

\* EloRatingSystem.register on the engine state e = [ratings, runs, seen_games].
\* The loop over preference.games updates ratings[game] and runs[game] one
\* game after the other, so a preference naming one game twice updates that
\* game twice.
register(e, init, p, owns_game) ==
    LET author_rated == Get(e.seen_games, p.author, {})
        already_rated == any_rated(author_rated, p.games)
        seen2 == add_seen_games(e.seen_games, p.author, p.games)
        a == p.games[1]
        b == p.games[2]
        r1 == with_initial(e.ratings, p.games, init)
        ea == expected_score_of(r1[a], r1[b])
        eb == expected_score_of(r1[b], r1[a])
        ra == [r1 EXCEPT ![a] = @ + DefaultK * (p.first_score - ea)]
        r2 == [ra EXCEPT ![b] = @ + DefaultK * ((1000 - p.first_score) - eb)]
        na == [g \in DOMAIN e.runs \cup {a} |->
                 IF g = a THEN Get(e.runs, g, 0) + 1 ELSE e.runs[g]]
        n2 == [g \in DOMAIN na \cup {b} |->
                 IF g = b THEN Get(na, g, 0) + 1 ELSE na[g]]
    IN  IF owns_game \/ already_rated
        THEN [ratings |-> e.ratings, runs |-> e.runs, seen_games |-> seen2,
              counted |-> FALSE]
        ELSE [ratings |-> normalize(r2), runs |-> n2, seen_games |-> seen2,
              counted |-> TRUE]

\* EloRatingSystem.clear
cleared == [ratings |-> <<>>, runs |-> <<>>, seen_games |-> <<>>, counted |-> FALSE]

engine == [ratings |-> ratings, runs |-> runs, seen_games |-> seen_games,
           counted |-> FALSE]

\* The engine after registering every preference of the sequence ps in order,
\* none with owns_game (RAMPreferenceStore.rebuild's and build_system's loop).
RECURSIVE register_all(_, _, _)
register_all(e, init, ps) ==
    IF ps = <<>> THEN e
    ELSE register_all(register(e, init, Head(ps), FALSE), init, Tail(ps))

\* GameMeta.allowed_access: the email is a member of the game's team.
allowed_access(team_id, email) == email \in member_emails[team_id]

author_owns(p) ==
    allowed_access(p.games[1], p.author) \/ allowed_access(p.games[2], p.author)

Pairs == {g \in Teams \X Teams : g[1] # g[2]}

\* Preference(games, first_score, author), timestamp = time.time()
Preference(games, first_score, author, t) ==
    [games |-> games, first_score |-> first_score, author |-> author,
     timestamp |-> t]

----------------------------------------------------------------------------
(* The engine on its own: register and clear called directly *)

Register(p, owns_game) ==
    LET e == register(engine, initial, p, owns_game)
    IN  /\ ratings' = e.ratings
        /\ runs' = e.runs
        /\ seen_games' = e.seen_games
        /\ last' = [op |-> "register", value |-> p, owns |-> owns_game,
                    out |-> e.counted]

Clear ==
    /\ ratings' = cleared.ratings
    /\ runs' = cleared.runs
    /\ seen_games' = cleared.seen_games
    /\ last' = [op |-> "clear", value |-> <<>>, owns |-> FALSE, out |-> FALSE]

NoOp == [op |-> "init", value |-> <<>>, owns |-> FALSE, out |-> FALSE]

StopTasks == 1..MaxStops

\* Container.__init__: no handle, no stream, running, nothing started
\* No call of the store has begun
CallIds == 1..MaxCalls

NoCalls == [c \in CallIds |-> [pc |-> "idle"]]

\* GamebattleApi.ws before the handler is called
NewSocket ==
    [handler |-> "idle", cause |-> "", state |-> "new", client |-> TRUE,
     frames |-> <<>>, send_task |-> "none", receive_task |-> "none",
     position |-> 0]

NewContainer ==
    [handle |-> FALSE, stream |-> FALSE, running |-> TRUE, starting |-> "new",
     receiver |-> "none", eof |-> FALSE, written |-> 0, resized |-> 0,
     calls |-> 0, stops |-> [t \in StopTasks |-> "idle"]]

InitRest ==
    /\ excluded = {}
    /\ reports = [t \in Teams |-> <<>>]
    /\ store_kind = "redis"
    /\ preferences = <<>>
    /\ bound = FALSE
    /\ items = <<>>
    /\ closed = FALSE
    /\ sub = <<>>
    /\ sessions = <<>>
    /\ launching = <<>>
    /\ created = 0
    /\ alive = {}
    /\ over = {}
    /\ catalogue = <<"A", "B", "C">>
    /\ socket = NewSocket
    /\ calls = NoCalls
    /\ replacing = <<>>
    /\ container = NewContainer
    /\ files = <<>>
    /\ last = NoOp

InitEngine ==
    /\ initial \in {DefaultInitial * 1000, LowInitial * 1000}
    /\ ratings = <<>>
    /\ runs = <<>>
    /\ seen_games = <<>>
    /\ now = 0
    /\ InitRest

EngineRegister ==
    /\ now < MaxClock
    /\ \E g \in Pairs, s \in Scores, a \in Authors, o \in BOOLEAN :
          Register(Preference(g, s, a, now), o)
    /\ now' = now + 1
    /\ UNCHANGED <<initial, reportVars, storeVars, streamVars, managerVars, over, catalogue, socket, calls, replacing,
                container, files>>

EngineClear ==
    /\ ratings # <<>>
    /\ Clear
    /\ UNCHANGED <<initial, now, reportVars, storeVars, streamVars, managerVars, over, catalogue, socket, calls, replacing,
                container, files>>

NextEngine == EngineRegister \/ EngineClear

SpecEngine == InitEngine /\ [][NextEngine]_vars

\* register called with any preference the type allows: Preference.games is
\* tuple[str, str], and nothing asks the two to differ
EngineRegisterAny ==
    /\ now < MaxClock
    /\ \E g \in Teams \X Teams, s \in {0, 1000}, a \in Authors, o \in BOOLEAN :
          Register(Preference(g, s, a, now), o)
    /\ now' = now + 1
    /\ UNCHANGED <<initial, reportVars, storeVars, streamVars, managerVars, over, catalogue, socket, calls, replacing,
                container, files>>

NextRuns == EngineRegisterAny \/ EngineClear

SpecRuns == InitEngine /\ [][NextRuns]_vars

----------------------------------------------------------------------------
(* RAMPreferenceStore and RedisPreferenceStore *)

keys_of(ps) == {ps[i].key : i \in DOMAIN ps}

index_of(ps, key) == CHOOSE i \in DOMAIN ps : ps[i].key = key

\* The stored preferences in iteration order (dict order; the scan order).
all_preferences(ps) == [i \in DOMAIN ps |-> ps[i].value]

RECURSIVE insert_sorted(_, _)
insert_sorted(sorted, p) ==
    IF sorted = <<>> THEN <<p>>
    ELSE IF p.timestamp < Head(sorted).timestamp THEN <<p>> \o sorted
    ELSE <<Head(sorted)>> \o insert_sorted(Tail(sorted), p)

RECURSIVE sort_by_timestamp(_, _)
sort_by_timestamp(sorted, rest) ==
    IF rest = <<>> THEN sorted
    ELSE sort_by_timestamp(insert_sorted(sorted, Head(rest)), Tail(rest))

\* sorted(preferences, key=lambda x: x.timestamp): a stable sort
sorted_preferences(ps) == sort_by_timestamp(<<>>, all_preferences(ps))

\* RedisPreferenceStore.build_system: clear, then register in the given order
build_system(ps, init) == register_all(cleared, init, ps)

\* RAMPreferenceStore.rebuild: clear, then register in dict order
rebuild(ps, init) == register_all(cleared, init, all_preferences(ps))

\* self.preferences[key] = value / hmset: an existing key keeps its place
stored(ps, key, value) ==
    IF key \in keys_of(ps)
    THEN [ps EXCEPT ![index_of(ps, key)].value = value]
    ELSE Append(ps, [key |-> key, value |-> value])

removed(ps, key) == SelectSeq(ps, LAMBDA x : x.key # key)

\* What a store delivers to a bound rating system: clear() and register()
ClearEvent == [type |-> "clear", p |-> <<>>, owns |-> FALSE]

RegisterEvent(p, owns_game) == [type |-> "register", p |-> p, owns |-> owns_game]

\* `for preference in ...: await rating_system.register(preference)`
register_events(ps) == [i \in DOMAIN ps |-> RegisterEvent(ps[i], FALSE)]

\* A rebuild with `await rating_system.clear()` left out
rebuild_events_unclear(ps) == register_events(ps)

\* RAMPreferenceStore.rebuild / RedisPreferenceStore.build_system as events
rebuild_events(ps) == <<ClearEvent>> \o register_events(ps)

\* The rating system after the events, delivered in order
RECURSIVE deliver(_, _, _)
deliver(e, init, events) ==
    IF events = <<>> THEN e
    ELSE deliver(IF Head(events).type = "clear" THEN cleared
                 ELSE register(e, init, Head(events).p, Head(events).owns),
                 init, Tail(events))

SetEngine(e) ==
    /\ ratings' = e.ratings
    /\ runs' = e.runs
    /\ seen_games' = e.seen_games

\* RAMPreferenceStore.set(key, value, owns_game)
RAMSet(key, value, owns_game) ==
    LET preference_exists == key \in keys_of(preferences)
        ps == stored(preferences, key, value)
        events == IF ~bound THEN <<>>
                  ELSE IF preference_exists
                       THEN rebuild_events(all_preferences(ps))
                       ELSE <<RegisterEvent(value, owns_game)>>
    IN  /\ store_kind = "ram"
        /\ preferences' = ps
        /\ SetEngine(deliver(engine, initial, events))
        /\ last' = [op |-> "set", key |-> key, value |-> value,
                    owns |-> owns_game, existed |-> preference_exists,
                    events |-> events, out |-> "ok"]

\* RedisPreferenceStore.set(key, value)
RedisSet(key, value) ==
    LET preference_exists == key \in keys_of(preferences)
        ps == stored(preferences, key, value)
        events == IF ~bound THEN <<>>
                  ELSE IF preference_exists
                       THEN rebuild_events(sorted_preferences(ps))
                       ELSE <<RegisterEvent(value, FALSE)>>
    IN  /\ store_kind = "redis"
        /\ preferences' = ps
        /\ SetEngine(deliver(engine, initial, events))
        /\ last' = [op |-> "set", key |-> key, value |-> value,
                    owns |-> FALSE, existed |-> preference_exists,
                    events |-> events, out |-> "ok"]

\* RAMPreferenceStore.delete(key): `del` raises KeyError on a missing key
RAMDelete(key) ==
    LET existed == key \in keys_of(preferences)
        ps == removed(preferences, key)
        events == IF existed /\ bound THEN rebuild_events(all_preferences(ps))
                  ELSE <<>>
    IN  /\ store_kind = "ram"
        /\ preferences' = ps
        /\ SetEngine(deliver(engine, initial, events))
        /\ last' = [op |-> "delete", key |-> key, value |-> <<>>,
                    owns |-> FALSE, existed |-> existed, events |-> events,
                    out |-> IF existed THEN "ok" ELSE "KeyError"]

\* RedisPreferenceStore.delete(key)
RedisDelete(key) ==
    LET ps == removed(preferences, key)
        events == IF bound THEN rebuild_events(sorted_preferences(ps)) ELSE <<>>
    IN  /\ store_kind = "redis"
        /\ preferences' = ps
        /\ SetEngine(deliver(engine, initial, events))
        /\ last' = [op |-> "delete", key |-> key, value |-> <<>>,
                    owns |-> FALSE, existed |-> key \in keys_of(preferences),
                    events |-> events, out |-> "ok"]

\* RAMPreferenceStore.bind: register everything stored, then subscribe
RAMBind ==
    /\ store_kind = "ram"
    /\ ~bound
    /\ bound' = TRUE
    /\ SetEngine(deliver(engine, initial,
                         register_events(all_preferences(preferences))))
    /\ last' = [op |-> "bind", key |-> 0, value |-> <<>>, owns |-> FALSE,
                existed |-> FALSE,
                events |-> register_events(all_preferences(preferences)),
                out |-> "ok"]

\* RedisPreferenceStore.bind: subscribe, then build_system
RedisBind ==
    /\ store_kind = "redis"
    /\ ~bound
    /\ bound' = TRUE
    /\ SetEngine(deliver(engine, initial,
                         rebuild_events(sorted_preferences(preferences))))
    /\ last' = [op |-> "bind", key |-> 0, value |-> <<>>, owns |-> FALSE,
                existed |-> FALSE,
                events |-> rebuild_events(sorted_preferences(preferences)),
                out |-> "ok"]

InitStore ==
    /\ initial = DefaultInitial * 1000
    /\ ratings = <<>>
    /\ runs = <<>>
    /\ seen_games = <<>>
    /\ now = 0
    /\ excluded = {}
    /\ reports = [t \in Teams |-> <<>>]
    /\ store_kind \in {"ram", "redis"}
    /\ preferences = <<>>
    /\ bound = FALSE
    /\ items = <<>>
    /\ closed = FALSE
    /\ sub = <<>>
    /\ sessions = <<>>
    /\ launching = <<>>
    /\ created = 0
    /\ alive = {}
    /\ over = {}
    /\ catalogue = <<"A", "B", "C">>
    /\ socket = NewSocket
    /\ calls = NoCalls
    /\ replacing = <<>>
    /\ container = NewContainer
    /\ files = <<>>
    /\ last = NoOp

StoreFrame == UNCHANGED <<initial, reportVars, store_kind, streamVars, managerVars, over, catalogue, socket, calls, replacing,
                container, files>>

\* A caller of the RAM store leaves owns_game at its default or passes
\* whether the author is on the team of one of the games.
StoreRAMSet ==
    /\ now < MaxClock
    /\ \E key \in Keys, g \in Pairs, s \in Scores, a \in Authors :
         \E o \in {FALSE, author_owns(Preference(g, s, a, now))} :
            RAMSet(key, Preference(g, s, a, now), o)
    /\ now' = now + 1
    /\ UNCHANGED bound
    /\ StoreFrame

StoreRedisSet ==
    /\ now < MaxClock
    /\ \E key \in Keys, g \in Pairs, s \in Scores, a \in Authors :
            RedisSet(key, Preference(g, s, a, now))
    /\ now' = now + 1
    /\ UNCHANGED bound
    /\ StoreFrame

StoreRAMDelete ==
    /\ \E key \in Keys : RAMDelete(key)
    /\ UNCHANGED <<bound, now>>
    /\ StoreFrame

StoreRedisDelete ==
    /\ \E key \in Keys : RedisDelete(key)
    /\ UNCHANGED <<bound, now>>
    /\ StoreFrame

StoreRAMBind == RAMBind /\ UNCHANGED <<preferences, now>> /\ StoreFrame

StoreRedisBind == RedisBind /\ UNCHANGED <<preferences, now>> /\ StoreFrame

NextStore ==
    \/ StoreRAMSet
    \/ StoreRedisSet
    \/ StoreRAMDelete
    \/ StoreRedisDelete
    \/ StoreRAMBind
    \/ StoreRedisBind

SpecStore == InitStore /\ [][NextStore]_vars

----------------------------------------------------------------------------
(* ReplayableStream *)

Subs == 1..MaxSubs

\* The end-of-stream marker put on the queues by close (None).
None == 0

\* The queues in _subscribers: those of the iterators blocked in queue.get().
subscribers == {s \in DOMAIN sub : sub[s].pc = "wait"}

not_put(queue, element) == queue

\* `await sub.put(element)` on an unbounded queue
put(queue, element) == Append(queue, element)

\* ReplayableStream.append without the test of _closed
append_unchecked(item) ==
    /\ items' = Append(items, item)
    /\ sub' = [s \in DOMAIN sub |->
                 IF s \in subscribers
                 THEN [sub[s] EXCEPT !.queue = put(@, item)]
                 ELSE sub[s]]
    /\ last' = [op |-> "append", value |-> item, owns |-> FALSE, out |-> "ok"]

\* ReplayableStream.append(item)
append(item) ==
    IF closed
    THEN /\ UNCHANGED <<items, sub>>
         /\ last' = [op |-> "append", value |-> item, owns |-> FALSE,
                     out |-> "ValueError"]
    ELSE /\ items' = Append(items, item)
         /\ sub' = [s \in DOMAIN sub |->
                      IF s \in subscribers
                      THEN [sub[s] EXCEPT !.queue = put(@, item)]
                      ELSE sub[s]]
         /\ last' = [op |-> "append", value |-> item, owns |-> FALSE,
                     out |-> "ok"]

\* ReplayableStream.close()
close ==
    /\ closed' = TRUE
    /\ sub' = [s \in DOMAIN sub |->
                 IF s \in subscribers
                 THEN [sub[s] EXCEPT !.queue = put(@, None)]
                 ELSE sub[s]]
    /\ last' = [op |-> "close", value |-> 0, owns |-> FALSE, out |-> "ok"]

\* ReplayableStream.__aiter__, from the call to the first suspension
aiter(s) ==
    /\ sub[s].pc = "idle"
    /\ sub' = [sub EXCEPT ![s].pc = "replay", ![s].at = Len(items)]
    /\ last' = [op |-> "aiter", value |-> s, owns |-> FALSE, out |-> "ok"]

\* The end of the replay with `if self._closed: return` left out
after_replay_subscribing(is_closed) == "wait"

\* After the replay: `if self._closed: return`, else subscribe and wait
after_replay(is_closed) == IF is_closed THEN "done" ELSE "wait"

\* The iterator resumed inside `for item in self._items`: the list iterator
\* reads the live list, so it yields the next item if there is one; at the
\* end of the list it returns if the stream is closed and otherwise adds its
\* queue to _subscribers and blocks in queue.get().
replay_next(s) ==
    /\ sub[s].pc = "replay"
    /\ IF sub[s].idx < Len(items)
       THEN sub' = [sub EXCEPT ![s].idx = @ + 1,
                               ![s].seen = Append(@, items[sub[s].idx + 1])]
       ELSE sub' = [sub EXCEPT ![s].pc = after_replay(closed), ![s].queue = <<>>]
    /\ last' = [op |-> "next", value |-> s, owns |-> FALSE, out |-> "ok"]

\* queue.get() returns: None ends the iterator (and the finally clause takes
\* the queue out of _subscribers), anything else is yielded.
queue_next(s) ==
    /\ sub[s].pc = "wait"
    /\ sub[s].queue # <<>>
    /\ IF Head(sub[s].queue) = None
       THEN sub' = [sub EXCEPT ![s].pc = "done", ![s].queue = <<>>]
       ELSE sub' = [sub EXCEPT ![s].queue = Tail(@),
                               ![s].seen = Append(@, Head(sub[s].queue))]
    /\ last' = [op |-> "next", value |-> s, owns |-> FALSE, out |-> "ok"]

InitStream ==
    /\ initial = DefaultInitial * 1000
    /\ ratings = <<>>
    /\ runs = <<>>
    /\ seen_games = <<>>
    /\ now = 0
    /\ excluded = {}
    /\ reports = [t \in Teams |-> <<>>]
    /\ store_kind = "redis"
    /\ preferences = <<>>
    /\ bound = FALSE
    /\ items = <<>>
    /\ closed = FALSE
    /\ sub = [s \in Subs |-> [pc |-> "idle", idx |-> 0, queue |-> <<>>,
                              seen |-> <<>>, at |-> 0]]
    /\ sessions = <<>>
    /\ launching = <<>>
    /\ created = 0
    /\ alive = {}
    /\ over = {}
    /\ catalogue = <<"A", "B", "C">>
    /\ socket = NewSocket
    /\ calls = NoCalls
    /\ replacing = <<>>
    /\ container = NewContainer
    /\ files = <<>>
    /\ last = NoOp

StreamFrame ==
    UNCHANGED <<eloVars, reportVars, storeVars, now, managerVars, over, catalogue, socket, calls, replacing,
                container, files>>

\* Container._receive appends what the reader returns, in arrival order; the
\* items are numbered so that a duplicate or a gap shows.
StreamAppend ==
    /\ ~closed
    /\ Len(items) < MaxItems
    /\ append(Len(items) + 1)
    /\ UNCHANGED closed
    /\ StreamFrame

\* An append after close: the ValueError.
StreamAppendClosed ==
    /\ closed
    /\ append(Len(items) + 1)
    /\ UNCHANGED closed
    /\ StreamFrame

\* Container._receive closes the stream once, when the reader returns EOF.
StreamClose ==
    /\ ~closed
    /\ close
    /\ UNCHANGED items
    /\ StreamFrame

StreamSubscribe ==
    /\ \E s \in Subs : aiter(s)
    /\ UNCHANGED <<items, closed>>
    /\ StreamFrame

StreamReplayNext ==
    /\ \E s \in Subs : replay_next(s)
    /\ UNCHANGED <<items, closed>>
    /\ StreamFrame

StreamQueueNext ==
    /\ \E s \in Subs : queue_next(s)
    /\ UNCHANGED <<items, closed>>
    /\ StreamFrame

NextStream ==
    \/ StreamAppend
    \/ StreamAppendClosed
    \/ StreamClose
    \/ StreamSubscribe
    \/ StreamReplayNext
    \/ StreamQueueNext

SpecStream == InitStream /\ [][NextStream]_vars

\* The consumer of an iterator (`async for` in the API's _ws_receive) asks for
\* the next item again and again: an iterator that can go on does go on.
SubscriberGoesOn(s) ==
    /\ replay_next(s) \/ queue_next(s)
    /\ UNCHANGED <<items, closed>>
    /\ StreamFrame

SpecStreamLive ==
    SpecStream /\ \A s \in Subs : WF_vars(SubscriberGoesOn(s))


----------------------------------------------------------------------------
(* Pairing strategies, the leaderboard and the ReportStore *)

remove_at(s, i) == SubSeq(s, 1, i - 1) \o SubSeq(s, i + 1, Len(s))

\* `for game in available: if owner in [report authors]: available.remove(game)`
\* The list iterator keeps its index while the list shrinks under it.
RECURSIVE remove_reported(_, _, _, _)
remove_reported(available, i, reps, owner) ==
    IF i > Len(available) THEN available
    ELSE IF owner \in Range(reps[available[i]])
         THEN remove_reported(remove_at(available, i), i + 1, reps, owner)
         ELSE remove_reported(available, i + 1, reps, owner)

\* EloRatingSystem.pair_likelihood, times 200 (in thousandths)
pair_likelihood(e, init, game, other) ==
    Abs(Get(e.ratings, game, init) - Get(e.ratings, other, init))
      - 200000 * (Get(e.runs, game, 0) + Get(e.runs, other, 0))

\* [(game, other) for game in available for other in available if game != other]
RECURSIVE pairs_from(_, _, _)
pairs_from(available, i, j) ==
    IF i > Len(available) THEN <<>>
    ELSE IF j > Len(available) THEN pairs_from(available, i + 1, 1)
    ELSE (IF available[i] # available[j]
          THEN <<(<<available[i], available[j]>>)>> ELSE <<>>)
         \o pairs_from(available, i, j + 1)

\* list.sort(key=..., reverse=True): stable, greatest key first
RECURSIVE insert_pair(_, _, _, _)
insert_pair(sorted, pair, e, init) ==
    IF sorted = <<>> THEN <<pair>>
    ELSE IF pair_likelihood(e, init, pair[1], pair[2])
              > pair_likelihood(e, init, Head(sorted)[1], Head(sorted)[2])
         THEN <<pair>> \o sorted
         ELSE <<Head(sorted)>> \o insert_pair(Tail(sorted), pair, e, init)

RECURSIVE sort_pairs(_, _, _, _)
sort_pairs(sorted, rest, e, init) ==
    IF rest = <<>> THEN sorted
    ELSE sort_pairs(insert_pair(sorted, Head(rest), e, init), Tail(rest), e, init)

RECURSIVE flatten(_)
flatten(pairs) ==
    IF pairs = <<>> THEN <<>> ELSE Head(pairs) \o flatten(Tail(pairs))

first_n(s, n) == SubSeq(s, 1, IF n < Len(s) THEN n ELSE Len(s))

\* The games that pass the filter of EloRatingSystem.launch, in catalogue order
available_games(e, excl, owner, avoid) ==
    SelectSeq(launcher_games,
              LAMBDA g : /\ ~allowed_access(g, owner)
                         /\ g \notin avoid
                         /\ g \notin excl
                         /\ g \notin Get(e.seen_games, owner, {}))

\* EloRatingSystem.launch(launcher, capacity, owner, avoid): elo_pair
launch(e, init, excl, reps, capacity, owner, avoid) ==
    LET available == remove_reported(available_games(e, excl, owner, avoid),
                                     1, reps, owner)
        game_pairs == sort_pairs(<<>>, pairs_from(available, 1, 1), e, init)
    IN  IF game_pairs = <<>> THEN <<>>
        ELSE first_n(flatten(game_pairs) \o launcher_games, capacity)

\* The arrangements of n distinct members of the set S
Samples(S, n) ==
    {q \in UNION {[1..n -> S]} : \A i, j \in 1..n : i # j => q[i] # q[j]}

\* launch_randomly(launcher, capacity, owner): the results random.sample may
\* give; a sample larger than the population is a ValueError.
launch_randomly(capacity, owner) ==
    LET available == {g \in Range(launcher_games) : ~allowed_access(g, owner)}
    IN  IF available = {} THEN {[err |-> "", games |-> <<>>]}
        ELSE IF capacity > Cardinality(available)
             THEN {[err |-> "ValueError", games |-> <<>>]}
             ELSE {[err |-> "", games |-> q] : q \in Samples(available, capacity)}

\* launch_own(launcher, capacity, owner)
launch_own(capacity, owner) ==
    LET available == {g \in Range(launcher_games) : allowed_access(g, owner)}
    IN  IF capacity > 1 \/ available = {}
        THEN {[err |-> "GamebattleError", games |-> <<>>]}
        ELSE {[err |-> "", games |-> q] : q \in Samples(available, capacity)}

\* launch_specified(game_id)(launcher, capacity, owner)
launch_specified(game_id) ==
    IF game_id \in Range(launcher_games)
    THEN {[err |-> "", games |-> <<game_id>>]}
    ELSE {[err |-> "KeyError", games |-> <<>>]}

Strategies ==
    {[name |-> n, game_id |-> ""] : n \in {"elo_pair", "random", "own"}}
      \cup {[name |-> "specified", game_id |-> g] : g \in Teams}

\* strategy(launcher, capacity, owner): the call made by Session.launch
strategy_results(strategy, e, init, excl, reps, capacity, owner) ==
    CASE strategy.name = "elo_pair" ->
           {[err |-> "", games |-> launch(e, init, excl, reps, capacity, owner, {})]}
      [] strategy.name = "random" -> launch_randomly(capacity, owner)
      [] strategy.name = "own" -> launch_own(capacity, owner)
      [] OTHER -> launch_specified(strategy.game_id)

\* strategy(launcher, capacity, owner, avoid=avoid): the call made by
\* Session.replace_game.  Only EloRatingSystem.launch has the parameter; the
\* strategies of the launcher module are defined without it, and the call
\* raises a TypeError.
strategy_results_avoiding(strategy, e, init, excl, reps, capacity, owner, avoid) ==
    IF strategy.name = "elo_pair"
    THEN {[err |-> "", games |-> launch(e, init, excl, reps, capacity, owner, avoid)]}
    ELSE {[err |-> "TypeError", games |-> <<>>]}

\* The sequences that hold each member of S once, greatest rating first
sorted_by_score(S, r) ==
    {q \in UNION {[1..Cardinality(S) -> S]} :
        /\ \A i, j \in DOMAIN q : i # j => q[i] # q[j]
        /\ \A i, j \in DOMAIN q : i < j => r[q[i]] >= r[q[j]]}

\* EloRatingSystem.top(launcher): the team_ids of the ratings it yields
top(e, excl) ==
    sorted_by_score({g \in DOMAIN e.ratings :
                        g \in Range(launcher_games) /\ g \notin excl},
                    e.ratings)

Reporters == {"v2"}
Capacities == {1, 2, MaxCapacity}

InitPairing ==
    /\ initial = DefaultInitial * 1000
    /\ ratings = <<>>
    /\ runs = <<>>
    /\ seen_games = <<>>
    /\ now = 0
    /\ InitRest

PairingFrame == UNCHANGED <<initial, storeVars, streamVars, managerVars, over, catalogue, socket, calls, replacing,
                container, files>>

PairingRegister ==
    /\ now < MaxVotes
    /\ \E g \in Pairs, s \in Scores, a \in Authors :
          Register(Preference(g, s, a, now), FALSE)
    /\ now' = now + 1
    /\ UNCHANGED reportVars
    /\ PairingFrame

\* RedisReportStore.exclude / include
PairingExclude ==
    /\ \E t \in Teams :
         /\ excluded' = excluded \cup {t}
         /\ last' = [op |-> "exclude", value |-> t, owns |-> FALSE, out |-> FALSE]
    /\ UNCHANGED <<ratings, runs, seen_games, reports, now>>
    /\ PairingFrame

PairingInclude ==
    /\ \E t \in Teams :
         /\ excluded' = excluded \ {t}
         /\ last' = [op |-> "include", value |-> t, owns |-> FALSE, out |-> FALSE]
    /\ UNCHANGED <<ratings, runs, seen_games, reports, now>>
    /\ PairingFrame

\* EloRatingSystem.report -> RedisReportStore.append
PairingReport ==
    /\ \E t \in Teams, a \in Reporters :
         /\ Len(reports["A"]) + Len(reports["B"]) + Len(reports["C"]) < MaxReports
         /\ reports' = [reports EXCEPT ![t] = Append(@, a)]
         /\ last' = [op |-> "report", value |-> t, owns |-> FALSE,
                     out |-> Len(reports[t]) + 1]
    /\ UNCHANGED <<ratings, runs, seen_games, excluded, now>>
    /\ PairingFrame

\* the avoid sets a strategy is called with: none, one game, two games
AvoidSets == {{}, {"A"}, {"B", "C"}}

\* A strategy called with an avoid set
PairingLaunch ==
    /\ \E st \in Strategies, c \in Capacities, o \in Authors,
          av \in AvoidSets :
         \E res \in strategy_results_avoiding(st, engine, initial, excluded,
                                               reports, c, o, av) :
            last' = [op |-> "launch", value |-> res.games, owns |-> FALSE,
                     out |-> res.err, strategy |-> st, avoid |-> av,
                     excluded |-> excluded, owner |-> o]
    /\ UNCHANGED <<ratings, runs, seen_games, reportVars, now>>
    /\ PairingFrame

PairingTop ==
    /\ \E q \in top(engine, excluded) :
         last' = [op |-> "top", value |-> q, owns |-> FALSE, out |-> "",
                  excluded |-> excluded]
    /\ UNCHANGED <<ratings, runs, seen_games, reportVars, now>>
    /\ PairingFrame

NextPairing ==
    \/ PairingRegister
    \/ PairingExclude
    \/ PairingInclude
    \/ PairingReport
    \/ PairingLaunch
    \/ PairingTop

SpecPairing == InitPairing /\ [][NextPairing]_vars

----------------------------------------------------------------------------
(* Manager: the session map *)

Users == Authors
SessionIds == 1..MaxSessions
AnyOwner == "*"        \* stop_session called with owner=None

\* Manager.user_sessions(user_id): the ids of the user's sessions
user_sessions(ss, user_id) == {id \in DOMAIN ss : ss[id].owner = user_id}

\* Manager.get_session with the ownership test left out
get_session_of_anyone(ss, user_id, session_id) ==
    IF session_id \notin DOMAIN ss
    THEN [err |-> "KeyError", args |-> <<session_id>>, session |-> <<>>]
    ELSE [err |-> "", args |-> <<>>, session |-> <<ss[session_id]>>]

\* Manager.get_session(user_id, session_id): `self.sessions[session_id]`
\* raises KeyError(session_id), the ownership test a bare KeyError.
get_session(ss, user_id, session_id) ==
    IF session_id \notin DOMAIN ss
    THEN [err |-> "KeyError", args |-> <<session_id>>, session |-> <<>>]
    ELSE IF ss[session_id].owner # user_id
         THEN [err |-> "KeyError", args |-> <<>>, session |-> <<>>]
         ELSE [err |-> "", args |-> <<>>, session |-> <<ss[session_id]>>]

\* list.__getitem__(index): a negative index counts from the end, an index
\* outside the list raises IndexError.
list_getitem(games, index) ==
    LET position == IF index < 0 THEN index + Len(games) ELSE index
    IN  IF position < 0 \/ position >= Len(games)
        THEN [err |-> "IndexError", game |-> <<>>]
        ELSE [err |-> "", game |-> <<games[position + 1]>>]

\* Manager.get_game(user_id, session_id, game_id)
get_game(ss, user_id, session_id, game_id) ==
    LET found == get_session(ss, user_id, session_id)
    IN  IF found.err # ""
        THEN [err |-> found.err, game |-> <<>>]
        ELSE list_getitem(found.session[1].games, game_id)

\* The session map without one id
without(ss, session_id) == [id \in DOMAIN ss \ {session_id} |-> ss[id]]

\* Game.start for each game of a new session: the containers now alive
started(session_id, games) == {<<session_id, i>> : i \in DOMAIN games}

\* Session.stop, run to its end: every game of the session stopped
Session_stop(al, session_id) == {game \in al : game[1] # session_id}

\* A coroutine that is made and never awaited runs none of its body
never_awaited(al, after) == al

\* Manager.stop_session with the ownership test left out
stop_session_of_anyone(ss, al, session_id, owner) ==
    IF session_id \notin DOMAIN ss
    THEN [err |-> "KeyError", sessions |-> ss, alive |-> al]
    ELSE [err |-> "", sessions |-> without(ss, session_id),
          alive |-> never_awaited(al, Session_stop(al, session_id))]

\* Manager.stop_session(session_id, owner)
stop_session(ss, al, session_id, owner) ==
    IF session_id \notin DOMAIN ss
    THEN [err |-> "KeyError", sessions |-> ss, alive |-> al]
    ELSE IF owner # AnyOwner /\ ss[session_id].owner # owner
         THEN [err |-> "KeyError", sessions |-> ss, alive |-> al]
         ELSE [err |-> "", sessions |-> without(ss, session_id),
               alive |-> never_awaited(al, Session_stop(al, session_id))]

\* random.shuffle(games): any order of the same games
shuffles(games) ==
    {[i \in DOMAIN games |-> games[q[i]]] : q \in Samples(DOMAIN games, Len(games))}

\* Session(owner=owner, games=games): launch_time defaults to time.time()
Session(owner, games, time) ==
    [owner |-> owner, games |-> games, launch_time |-> time]

\* The manager starts with no session; the report store, which outlives it,
\* holds no exclusion or the exclusion of one game.
InitManager ==
    /\ initial = DefaultInitial * 1000
    /\ ratings = <<>>
    /\ runs = <<>>
    /\ seen_games = <<>>
    /\ now = 0
    /\ excluded \in {{}, {"C"}}
    /\ reports = [t \in Teams |-> <<>>]
    /\ store_kind = "redis"
    /\ preferences = <<>>
    /\ bound = FALSE
    /\ items = <<>>
    /\ closed = FALSE
    /\ sub = <<>>
    /\ sessions = <<>>
    /\ launching = <<>>
    /\ created = 0
    /\ alive = {}
    /\ over = {}
    /\ catalogue = <<"A", "B", "C">>
    /\ socket = NewSocket
    /\ calls = NoCalls
    /\ replacing = <<>>
    /\ container = NewContainer
    /\ files = <<>>
    /\ last = NoOp

ManagerFrame ==
    UNCHANGED <<eloVars, reportVars, storeVars, streamVars, over, catalogue, socket, calls,
                replacing, container, files>>

\* The calls the API makes for a player: create_session with the rating
\* system's launch and the default capacity, create_own_session with
\* launch_own and capacity 1.
ManagerCalls ==
    {[strategy |-> [name |-> "elo_pair", game_id |-> ""], capacity |-> 2],
     [strategy |-> [name |-> "own", game_id |-> ""], capacity |-> 1]}

\* Manager.create_session up to `await Session.launch`: the quota test.  The
\* RLock is reentrant and every coroutine runs on the event loop's thread, so
\* it does not keep a second create_session out while this one is suspended.
ManagerCreateBegin ==
    /\ BagCardinality(launching) < MaxLaunching
    /\ \E owner \in Users, call \in ManagerCalls :
         IF Cardinality(user_sessions(sessions, owner)) >= max_sessions_per_user
         THEN /\ last' = [op |-> "create_session", value |-> owner, owns |-> FALSE,
                          out |-> "TooManySessionsError"]
              /\ UNCHANGED launching
         ELSE /\ launching' = launching (+) SetToBag({[owner |-> owner,
                                    strategy |-> call.strategy,
                                    capacity |-> call.capacity]})
              /\ last' = [op |-> "create_session", value |-> owner, owns |-> FALSE,
                          out |-> "launching"]
    /\ UNCHANGED <<sessions, created, alive, now>>
    /\ ManagerFrame

\* Manager.create_session from the return of Session.launch: the strategy has
\* picked the games, they are shuffled, and the session is stored under a
\* fresh uuid4.  An exception of the strategy leaves the map alone.
ManagerCreateEnd ==
    /\ created < MaxSessions
    /\ \E call \in BagToSet(launching) :
             /\ launching' = launching (-) SetToBag({call})
             /\ \E res \in strategy_results(call.strategy, engine, initial, excluded,
                                            reports, call.capacity, call.owner) :
                  IF res.err # ""
                  THEN /\ last' = [op |-> "create_session", value |-> call.owner,
                                   owns |-> FALSE, out |-> res.err]
                       /\ UNCHANGED <<sessions, created, alive>>
                  ELSE \E games \in shuffles(res.games) :
                         /\ created' = created + 1
                         /\ alive' = alive \cup started(created + 1, games)
                         /\ sessions' = (created + 1 :> Session(call.owner, games, now))
                                          @@ sessions
                         /\ last' = [op |-> "create_session", value |-> call.owner,
                                     owns |-> FALSE, out |-> "", id |-> created + 1]
    /\ UNCHANGED now
    /\ ManagerFrame

ManagerGetSession ==
    /\ \E user_id \in Users, session_id \in SessionIds :
         last' = [op |-> "get_session", value |-> user_id, owns |-> FALSE,
                  out |-> get_session(sessions, user_id, session_id),
                  id |-> session_id]
    /\ UNCHANGED <<managerVars, now>>
    /\ ManagerFrame

GameIndexes == (0 - MaxIndex - 1)..MaxIndex

ManagerGetGame ==
    /\ \E user_id \in Users, session_id \in SessionIds, game_id \in GameIndexes :
         last' = [op |-> "get_game", value |-> user_id, owns |-> FALSE,
                  out |-> get_game(sessions, user_id, session_id, game_id),
                  id |-> session_id, index |-> game_id]
    /\ UNCHANGED <<managerVars, now>>
    /\ ManagerFrame

ManagerUserSessions ==
    /\ \E user_id \in Users :
         last' = [op |-> "user_sessions", value |-> user_id, owns |-> FALSE,
                  out |-> user_sessions(sessions, user_id)]
    /\ UNCHANGED <<managerVars, now>>
    /\ ManagerFrame

\* Manager.stop_session(session_id, owner).  `session.stop()` is a call of an
\* async method from a plain function: it makes the coroutine, which is
\* dropped without being awaited; then the entry is deleted.
ManagerStopSession ==
    /\ \E session_id \in SessionIds, owner \in Users \cup {AnyOwner} :
         LET res == stop_session(sessions, alive, session_id, owner)
         IN  /\ sessions' = res.sessions
             /\ alive' = res.alive
             /\ last' = [op |-> "stop_session", value |-> owner, owns |-> FALSE,
                         out |-> res.err, id |-> session_id]
    /\ UNCHANGED <<launching, created, now>>
    /\ ManagerFrame

\* Container.__del__ of a game no session holds any more: try_kill.  When it
\* runs depends on who else still refers to the game.
ManagerFinalize ==
    /\ \E game \in alive :
         /\ game[1] \notin DOMAIN sessions
         /\ alive' = alive \ {game}
         /\ last' = [op |-> "finalize", value |-> game, owns |-> FALSE, out |-> ""]
    /\ UNCHANGED <<sessions, launching, created, now>>
    /\ ManagerFrame

\* The wall clock read by time.time() moves on
ManagerTick ==
    /\ now < MaxTime
    /\ now' = now + 1
    /\ last' = [op |-> "tick", value |-> now + 1, owns |-> FALSE, out |-> ""]
    /\ UNCHANGED managerVars
    /\ ManagerFrame

NextManager ==
    \/ ManagerCreateBegin
    \/ ManagerCreateEnd
    \/ ManagerGetSession
    \/ ManagerGetGame
    \/ ManagerUserSessions
    \/ ManagerStopSession
    \/ ManagerFinalize
    \/ ManagerTick

SpecManager == InitManager /\ [][NextManager]_vars

----------------------------------------------------------------------------
(* Launcher: the files of one team's folder *)

\* A team's folder is the bag of the lengths of its files: the names are
\* interchangeable, so a file is told from another only by being there.
FileSizes == {0, max_file_bytes, max_file_bytes + 1}

\* Characters by the class the checks put them in: "a" letters, digits, "_"
\* and "-"; "." the dot; " " the space; "~" anything else; "/" the separator.
FileNames ==
    {<<"a">>, <<".">>, <<>>, <<"~">>, <<"a", " ", ".", "/", ".", "a">>,
     <<"a", "/", "/", "a">>,
     <<"a", "/", "a", "/", "a", "/", "a", "/", "a", "/", "a", "/", "a", "/",
       "a", "/", "a", "/", "a", "/", "a">>}

\* filename.split("/"): what stands before the first separator, then the
\* split of what stands after it
RECURSIVE split(_)
split(name) ==
    LET at == {i \in DOMAIN name : name[i] = "/"}
        first == CHOOSE i \in at : \A j \in at : i <= j
    IN  IF at = {} THEN <<name>>
        ELSE <<SubSeq(name, 1, first - 1)>>
               \o split(SubSeq(name, first + 1, Len(name)))

\* filename_component_valid without the test of required_chars
filename_component_valid_any(component, strict) ==
    LET allowed_chars == {"a", "."} \cup (IF strict THEN {} ELSE {" "})
    IN  /\ ~(Len(component) > max_component_length)
        /\ Len(component) # 0
        /\ \A i \in DOMAIN component : component[i] \in allowed_chars

\* Launcher.filename_component_valid(component, strict)
filename_component_valid(component, strict) ==
    LET allowed_chars == {"a", "."} \cup (IF strict THEN {} ELSE {" "})
        required_chars == {"a"}
    IN  /\ ~(Len(component) > max_component_length)
        /\ Len(component) # 0
        /\ \A i \in DOMAIN component : component[i] \in allowed_chars
        /\ \E i \in DOMAIN component : component[i] \in required_chars

\* Launcher.check_file_name(filename, strict)
check_file_name(filename, strict) ==
    LET components == split(filename)
    IN  /\ ~(Len(components) > max_components)
        /\ \A i \in DOMAIN components :
              filename_component_valid(components[i], strict)

\* len(self.get_game_files(owner))
file_count(fs) == BagCardinality(fs)

\* open(path, "wb").write(content): a new file, or the file of that name
\* (of length old) replaced
written(fs, exists, old, size) ==
    (IF exists THEN fs (-) SetToBag({old}) ELSE fs) (+) SetToBag({size})

\* `len(self.get_game_files(owner)) > 64`
too_many(count) == count > max_files

\* Launcher.add_game_file(owner, game_file_content, filename)
add_game_file(fs, filename, size, exists, old) ==
    IF ~check_file_name(filename, FALSE)
    THEN [err |-> "Invalid file name", files |-> fs]
    ELSE IF size > max_file_bytes
         THEN [err |-> "File too large", files |-> fs]
         ELSE IF too_many(file_count(fs))
              THEN [err |-> "Too many files", files |-> fs]
              ELSE [err |-> "", files |-> written(fs, exists, old, size)]

\* Launcher.remove_game_file(owner, filename): a missing file is passed over
remove_game_file(fs, filename, exists, old) ==
    IF ~check_file_name(filename, FALSE)
    THEN [err |-> "Invalid file name", files |-> fs]
    ELSE IF exists
         THEN [err |-> "", files |-> fs (-) SetToBag({old})]
         ELSE [err |-> "", files |-> fs]

InitFiles ==
    /\ initial = DefaultInitial * 1000
    /\ ratings = <<>>
    /\ runs = <<>>
    /\ seen_games = <<>>
    /\ now = 0
    /\ InitRest

FilesFrame ==
    UNCHANGED <<eloVars, reportVars, storeVars, streamVars, managerVars,
                over, catalogue, socket, calls, replacing, container, now>>

\* A name either is that of a stored file, whose length is then old, or is new
FilesAdd ==
    /\ \E filename \in FileNames, size \in FileSizes, exists \in BOOLEAN,
          old \in FileSizes :
         /\ exists => BagIn(old, files)
         /\ ~exists => old = 0
         /\ LET res == add_game_file(files, filename, size, exists, old)
            IN  /\ files' = res.files
                /\ last' = [op |-> "add_game_file", value |-> size, owns |-> exists,
                            out |-> res.err, before |-> files]
    /\ FilesFrame

FilesRemove ==
    /\ \E filename \in FileNames, exists \in BOOLEAN, old \in FileSizes :
         /\ exists => BagIn(old, files)
         /\ ~exists => old = 0
         /\ LET res == remove_game_file(files, filename, exists, old)
            IN  /\ files' = res.files
                /\ last' = [op |-> "remove_game_file", value |-> old, owns |-> exists,
                            out |-> res.err, before |-> files]
    /\ FilesFrame

NextFiles ==
    \/ FilesAdd
    \/ FilesRemove

SpecFiles == InitFiles /\ [][NextFiles]_vars

\* A component of n letters
Letters(n) == [i \in 1..n |-> "a"]

\* Components on both sides of every test of filename_component_valid
ComponentSamples ==
    {<<>>, <<".">>, <<".", ".">>, <<"a">>, <<".", "a">>, <<"a", " ">>, <<" ">>,
     <<"~">>, Letters(max_component_length), Letters(max_component_length + 1)}

\* "/".join(components)
RECURSIVE join(_)
join(components) ==
    IF Len(components) = 1 THEN components[1]
    ELSE components[1] \o <<"/">> \o join(Tail(components))

\* Names of up to MaxNameParts sample components, and names of
\* max_components and max_components + 1 components
NameInputs ==
    {join(cs) : cs \in UNION {[1..n -> ComponentSamples] : n \in 1..MaxNameParts}}
      \cup {join([i \in 1..n |-> IF i = n THEN c ELSE <<"a">>]) :
               n \in {max_components, max_components + 1},
               c \in ComponentSamples}

\* One call in a behaviour: the function keeps no state.
NamesCheck ==
    /\ last.op # "check_file_name"
    /\ \E filename \in NameInputs, strict \in BOOLEAN :
         last' = [op |-> "check_file_name", value |-> filename, owns |-> FALSE,
                  out |-> check_file_name(filename, strict), strict |-> strict]
    /\ UNCHANGED files
    /\ FilesFrame

NextNames == NamesCheck

SpecNames == InitFiles /\ [][NextNames]_vars

----------------------------------------------------------------------------
(* Session.over, Game.running and GamebattleApi.set_preference: the API on  *)
(* the manager's sessions and the Redis preference store.                   *)

\* Game.running: reads the container's status; a stopped container sets the
\* game's over flag (switching_over_allowed is True outside a restart)
Game_running(al, ov, game) ==
    IF game \in al
    THEN [running |-> TRUE, over |-> ov]
    ELSE [running |-> FALSE, over |-> ov \cup {game}]

\* Session.over: all(game.public.over for game in self.games)
Session_over(ss, ov, session_id) ==
    \A i \in DOMAIN ss[session_id].games : <<session_id, i>> \in ov

\* Preference.from_session: games[0] and games[1] of the session
from_session(session, first_score, t) ==
    IF Len(session.games) < 2
    THEN [err |-> "IndexError", preference |-> <<>>]
    ELSE [err |-> "",
          preference |-> Preference(<<session.games[1], session.games[2]>>,
                                    first_score, session.owner, t)]

\* set_preference with `if not session.over` left out
set_preference_any_time(ss, ov, player, session_id, score_first, t) ==
    IF get_session(ss, player, session_id).err # ""
    THEN [err |-> "404", preference |-> <<>>]
    ELSE from_session(ss[session_id], score_first, t)

\* GamebattleApi.set_preference up to the call of preference_store.set
set_preference(ss, ov, player, session_id, score_first, t) ==
    IF get_session(ss, player, session_id).err # ""
    THEN [err |-> "404", preference |-> <<>>]
    ELSE IF ~Session_over(ss, ov, session_id)
         THEN [err |-> "400", preference |-> <<>>]
         ELSE from_session(ss[session_id], score_first, t)

\* GamebattleApi.setup has bound the rating system to the empty Redis store
InitSession ==
    /\ initial = DefaultInitial * 1000
    /\ ratings = <<>>
    /\ runs = <<>>
    /\ seen_games = <<>>
    /\ now = 0
    /\ excluded = {}
    /\ reports = [t \in Teams \cup {"D"} |-> <<>>]
    /\ store_kind = "redis"
    /\ preferences = <<>>
    /\ bound = TRUE
    /\ items = <<>>
    /\ closed = FALSE
    /\ sub = <<>>
    /\ sessions = <<>>
    /\ launching = <<>>
    /\ created = 0
    /\ alive = {}
    /\ over = {}
    /\ catalogue = <<"A", "B", "C", "D">>
    /\ socket = NewSocket
    /\ calls = NoCalls
    /\ replacing = <<>>
    /\ container = NewContainer
    /\ files = <<>>
    /\ last = NoOp

SessionFrame ==
    UNCHANGED <<initial, excluded, store_kind, bound, streamVars, launching,
                catalogue, socket, calls, container, files>>

\* the process of a game ends: its container is no longer running
SessionGameExits ==
    /\ \E game \in alive :
         /\ alive' = alive \ {game}
         /\ last' = [op |-> "exit", value |-> game, owns |-> FALSE, out |-> ""]
    /\ UNCHANGED <<eloVars, preferences, sessions, created, over, replacing, now,
                   reports>>
    /\ SessionFrame

SessionGameRunning ==
    /\ \E id \in DOMAIN sessions : \E i \in DOMAIN sessions[id].games :
         LET r == Game_running(alive, over, <<id, i>>)
         IN  /\ over' = r.over
             /\ last' = [op |-> "running", value |-> <<id, i>>, owns |-> FALSE,
                         out |-> r.running]
    /\ UNCHANGED <<eloVars, preferences, sessions, created, alive, replacing,
                   now, reports>>
    /\ SessionFrame

SessionSetPreference ==
    /\ now < MaxRated
    /\ \E player \in Users, session_id \in SessionIds, score_first \in {0, 1000} :
         LET r == set_preference(sessions, over, player, session_id,
                                 score_first, now)
         IN  IF r.err # ""
             THEN /\ last' = [op |-> "set_preference", key |-> session_id,
                              value |-> player, owns |-> FALSE, out |-> r.err]
                  /\ UNCHANGED <<eloVars, preferences, now>>
             ELSE /\ RedisSet(session_id, r.preference)
                  /\ now' = now + 1
    /\ UNCHANGED <<sessions, created, alive, over, replacing, reports>>
    /\ SessionFrame

\* replace_game avoiding only the team of the game it replaces
replace_game_begin_one(session, al, session_id, game_id) ==
    IF list_getitem(session.games, game_id).err # ""
    THEN [err |-> "IndexError", alive |-> al, avoid |-> {}]
    ELSE [err |-> "", alive |-> al \ {<<session_id, game_id + 1>>},
          avoid |-> {list_getitem(session.games, game_id).game[1]}]

\* Session.replace_game up to the call of the strategy: the game is stopped
\* and the teams of the session's games are the avoid set
replace_game_begin(session, al, session_id, game_id) ==
    IF list_getitem(session.games, game_id).err # ""
    THEN [err |-> "IndexError", alive |-> al, avoid |-> {}]
    ELSE [err |-> "", alive |-> al \ {<<session_id, game_id + 1>>},
          avoid |-> Range(session.games)]

\* Session.replace_game from the strategy's answer: `(await strategy(launcher,
\* 1, owner, avoid=...))[0]` started and stored at game_id
replace_game_end(session, e, init, excl, reps, call) ==
    LET picked == launch(e, init, excl, reps, 1, call.owner, call.avoid)
    IN  IF picked = <<>>
        THEN [err |-> "IndexError", games |-> session.games]
        ELSE [err |-> "",
              games |-> [session.games EXCEPT ![call.game_id + 1] = picked[1]]]

\* The number of reports in the report store
reports_stored(reps) ==
    Len(reps["A"]) + Len(reps["B"]) + Len(reps["C"]) + Len(reps["D"])

\* The report_game calls that have not written their report yet
looking_up(bag) ==
    LET waiting == {call \in BagToSet(bag) : call.pc = "lookup"}
    IN  BagCardinality([call \in waiting |-> bag[call]])

\* report_game with restart_game up to `await self.preference_store.get`:
\* a session that has a preference is left alone
report_game_lookup(ps, session_id) ==
    IF session_id \in keys_of(ps) THEN "rated" ELSE ""

\* report_game with the report left until replace_game has returned
report_game_store_late(ss, reps, call) ==
    LET found == get_game(ss, call.owner, call.session_id, call.game_id)
    IN  [err |-> found.err, team |-> "", reports |-> reps]

\* report_game from get_session to the report: the report is written under
\* the team of the game that get_game returns
report_game_store(ss, reps, call) ==
    LET found == get_game(ss, call.owner, call.session_id, call.game_id)
    IN  IF found.err # ""
        THEN [err |-> found.err, team |-> "", reports |-> reps]
        ELSE [err |-> "", team |-> found.game[1],
              reports |-> [reps EXCEPT ![found.game[1]] = Append(@, call.owner)]]

\* A player reports a game of a session of theirs and asks for another one;
\* `requested` keeps the team of the game in the slot at that moment.
SessionReportBegin ==
    /\ BagCardinality(replacing) < MaxReplacing
    /\ reports_stored(reports) + looking_up(replacing) < MaxReports
    /\ \E owner \in Users, session_id \in DOMAIN sessions, game_id \in {0, 1} :
         /\ get_game(sessions, owner, session_id, game_id).err = ""
         /\ LET out == report_game_lookup(preferences, session_id)
                call == [pc |-> "lookup", owner |-> owner,
                         session_id |-> session_id, game_id |-> game_id,
                         avoid |-> {},
                         requested |-> sessions[session_id].games[game_id + 1]]
            IN  /\ replacing' = IF out # "" THEN replacing
                                ELSE replacing (+) SetToBag({call})
                /\ last' = [op |-> "report_game", value |-> <<session_id, game_id>>,
                            owns |-> FALSE, out |-> out]
    /\ UNCHANGED <<eloVars, preferences, sessions, created, alive, over, now,
                   reports>>
    /\ SessionFrame

\* report_game after the lookup: the report is stored, then asyncio.gather
\* starts replace_game, which stops the game and calls the strategy
SessionReplaceBegin ==
    /\ \E call \in BagToSet(replacing) :
         /\ call.pc = "lookup"
         /\ LET stored_report == report_game_store(sessions, reports, call)
                r == replace_game_begin(sessions[call.session_id], alive,
                                        call.session_id, call.game_id)
                failed == stored_report.err # ""
            IN  /\ reports' = stored_report.reports
                /\ alive' = IF failed THEN alive ELSE r.alive
                /\ replacing' = (replacing (-) SetToBag({call}))
                                  (+) IF failed THEN EmptyBag
                                      ELSE SetToBag({[call EXCEPT
                                                        !.pc = "replacing",
                                                        !.avoid = r.avoid]})
                /\ last' = [op |-> "replace_game",
                            value |-> <<call.session_id, call.game_id>>,
                            owns |-> FALSE,
                            out |-> IF failed THEN stored_report.err ELSE r.err,
                            avoid |-> r.avoid, owner |-> call.owner,
                            reported |-> stored_report.team,
                            requested |-> call.requested]
    /\ UNCHANGED <<eloVars, preferences, sessions, created, over, now>>
    /\ SessionFrame

SessionReplaceEnd ==
    /\ \E call \in BagToSet(replacing) :
         /\ call.pc = "replacing"
         /\ LET r == replace_game_end(sessions[call.session_id], engine, initial,
                                      excluded, reports, call)
                game == <<call.session_id, call.game_id + 1>>
            IN  /\ replacing' = replacing (-) SetToBag({call})
                /\ sessions' = [sessions EXCEPT ![call.session_id].games = r.games]
                /\ alive' = IF r.err = "" THEN alive \cup {game} ELSE alive
                /\ over' = IF r.err = "" THEN over \ {game} ELSE over
                /\ last' = [op |-> "replaced",
                            value |-> <<call.session_id, call.game_id>>,
                            owns |-> FALSE, out |-> r.err, avoid |-> call.avoid,
                            requested |-> call.requested]
    /\ UNCHANGED <<eloVars, preferences, created, now, reports>>
    /\ SessionFrame

\* Manager.create_session with the rating system's launch and capacity 2,
\* taken whole: quota test, Session.launch, shuffle, a fresh id
SessionCreate ==
    /\ created < MaxPlayed
    /\ \E owner \in Users :
         IF Cardinality(user_sessions(sessions, owner)) >= max_sessions_per_user
         THEN /\ last' = [op |-> "create_session", value |-> owner, owns |-> FALSE,
                          out |-> "TooManySessionsError"]
              /\ UNCHANGED <<sessions, created, alive>>
         ELSE \E games \in shuffles(launch(engine, initial, excluded, reports, 2,
                                           owner, {})) :
                /\ created' = created + 1
                /\ alive' = alive \cup started(created + 1, games)
                /\ sessions' = (created + 1 :> Session(owner, games, now))
                                 @@ sessions
                /\ last' = [op |-> "create_session", value |-> owner,
                            owns |-> FALSE, out |-> "", id |-> created + 1]
    /\ UNCHANGED <<eloVars, preferences, over, replacing, now, reports>>
    /\ SessionFrame

NextSession ==
    \/ SessionCreate
    \/ SessionReportBegin
    \/ SessionReplaceBegin
    \/ SessionReplaceEnd
    \/ SessionGameExits
    \/ SessionGameRunning
    \/ SessionSetPreference

SpecSession == InitSession /\ [][NextSession]_vars

----------------------------------------------------------------------------
(* Rounds of voting: each round a player's preference is set under a fresh  *)
(* session id in the Redis store, and players ask for the leaderboard and   *)
(* for a new pair.                                                          *)

\* the games of a session, in catalogue order
RoundPairs == {<<"A", "B">>, <<"B", "C">>, <<"A", "C">>}

\* the voter of round n: v2 again, or a player who has not voted yet
RoundVoters(n) == {"v2", <<"v3", "v4", "v5">>[n]}

\* `author_teams.get(author)` names a team that is one of the games; None
\* for author_teams is the mapping <<>>
replay_owns_game(p, author_teams) ==
    /\ p.author \in DOMAIN author_teams
    /\ author_teams[p.author] \in Range(p.games)

\* the update with the line for the second game left out
replay_update_first(r, init, p) ==
    LET a == p.games[1]
        r1 == with_initial(r, p.games, init)
        expected_first == expected_score_of(r1[a], r1[p.games[2]])
    IN  normalize([r1 EXCEPT ![a] = @ + DefaultK * (p.first_score
                                                      - expected_first)])

\* The rating update written out in both replay functions, on their local
\* `ratings`: expected_second is 1 - expected_first
replay_update(r, init, p) ==
    LET a == p.games[1]
        b == p.games[2]
        r1 == with_initial(r, p.games, init)
        expected_first == expected_score_of(r1[a], r1[b])
        expected_second == 1000 - expected_first
        ra == [r1 EXCEPT ![a] = @ + DefaultK * (p.first_score - expected_first)]
        r2 == [ra EXCEPT ![b] = @ + DefaultK * ((1000 - p.first_score)
                                                  - expected_second)]
    IN  normalize(r2)

\* the loop of replay_with_history on its locals `ratings`, `seen`, `result`
RECURSIVE history_loop(_, _, _, _, _, _)
history_loop(r, seen, result, init, ps, author_teams) ==
    IF ps = <<>> THEN result
    ELSE LET p == Head(ps)
             already_rated == any_rated(Get(seen, p.author, {}), p.games)
             seen2 == add_seen_games(seen, p.author, p.games)
             r2 == replay_update(r, init, p)
         IN  IF replay_owns_game(p, author_teams) \/ already_rated
             THEN history_loop(r, seen2,
                               Append(result, [preference |-> p, elo_changes |-> <<>>,
                                               counted |-> FALSE]),
                               init, Tail(ps), author_teams)
             ELSE history_loop(r2, seen2,
                               Append(result,
                                      [preference |-> p,
                                       elo_changes |->
                                         [g \in Range(p.games) |->
                                            <<with_initial(r, p.games, init)[g],
                                              r2[g]>>],
                                       counted |-> TRUE]),
                               init, Tail(ps), author_teams)

\* the loop of replay_excluding_authors on its locals `ratings`, `seen`
RECURSIVE excluding_loop(_, _, _, _, _, _)
excluding_loop(r, seen, init, ps, excluded_authors, author_teams) ==
    IF ps = <<>> THEN r
    ELSE LET p == Head(ps)
             already_rated == any_rated(Get(seen, p.author, {}), p.games)
             seen2 == add_seen_games(seen, p.author, p.games)
         IN  IF p.author \in excluded_authors
             THEN excluding_loop(r, seen, init, Tail(ps), excluded_authors,
                                 author_teams)
             ELSE IF replay_owns_game(p, author_teams) \/ already_rated
             THEN excluding_loop(r, seen2, init, Tail(ps), excluded_authors,
                                 author_teams)
             ELSE excluding_loop(replay_update(r, init, p), seen2, init, Tail(ps),
                                 excluded_authors, author_teams)

\* replay_with_history working on self.ratings and self.seen_games
replay_with_history_on_self(e, init, ps, author_teams) ==
    [engine |-> [e EXCEPT !.ratings =
                    excluding_loop(<<>>, <<>>, init, ps, {}, author_teams)],
     result |-> history_loop(<<>>, <<>>, <<>>, init, ps, author_teams)]

\* EloRatingSystem.replay_with_history(preferences, author_teams): the engine
\* it leaves and the list it returns
replay_with_history(e, init, ps, author_teams) ==
    [engine |-> e,
     result |-> history_loop(<<>>, <<>>, <<>>, init, ps, author_teams)]

\* EloRatingSystem.replay_excluding_authors(preferences, excluded_authors,
\* author_teams): the engine it leaves and the ratings it returns
replay_excluding_authors(e, init, ps, excluded_authors, author_teams) ==
    [engine |-> e,
     result |-> excluding_loop(<<>>, <<>>, init, ps, excluded_authors,
                               author_teams)]

\* author_teams: None (<<>>), or a mapping that puts v2 on team A
AuthorTeams == {<<>>, ("v2" :> "A")}

RoundFrame ==
    UNCHANGED <<initial, reportVars, store_kind, bound, streamVars, managerVars,
                over, catalogue, socket, calls, replacing, container, files>>

RoundSet ==
    /\ Len(preferences) < MaxRounds
    /\ Len(preferences) < 3
    /\ \E g \in RoundPairs, s \in {0, 1000},
          a \in RoundVoters(Len(preferences) + 1) :
         RedisSet(Len(preferences) + 1, Preference(g, s, a, now))
    /\ now' = now + 1
    /\ RoundFrame

\* create_session's call of the strategy: elo_pair with capacity 2
RoundLaunch ==
    /\ \E o \in Authors :
         last' = [op |-> "launch",
                  value |-> launch(engine, initial, excluded, reports, 2, o, {}),
                  owns |-> FALSE, out |-> "", owner |-> o]
    /\ UNCHANGED <<eloVars, preferences, now>>
    /\ RoundFrame

\* admin_preference_history: the replay of the stored log
RoundReplayHistory ==
    /\ \E author_teams \in AuthorTeams :
         LET res == replay_with_history(engine, initial,
                                        sorted_preferences(preferences),
                                        author_teams)
         IN  /\ SetEngine(res.engine)
             /\ last' = [op |-> "replay_with_history", value |-> res.result,
                         owns |-> FALSE, out |-> "", before |-> engine,
                         author_teams |-> author_teams]
    /\ UNCHANGED <<preferences, now>>
    /\ RoundFrame

RoundReplayExcluding ==
    /\ \E author_teams \in AuthorTeams, excluded_authors \in {{}, {"v2"}} :
         LET res == replay_excluding_authors(engine, initial,
                                             sorted_preferences(preferences),
                                             excluded_authors, author_teams)
         IN  /\ SetEngine(res.engine)
             /\ last' = [op |-> "replay_excluding_authors", value |-> res.result,
                         owns |-> FALSE, out |-> "", before |-> engine,
                         author_teams |-> author_teams,
                         excluded_authors |-> excluded_authors]
    /\ UNCHANGED <<preferences, now>>
    /\ RoundFrame

NextRounds ==
    \/ RoundSet
    \/ RoundLaunch
    \/ PairingTop
    \/ RoundReplayHistory
    \/ RoundReplayExcluding

SpecRounds == InitSession /\ [][NextRounds]_vars

----------------------------------------------------------------------------
(* container.py: Container.  handle is "_container is not None", stream is  *)
(* "_stream is not None"; its _output is the stream of items, closed, sub.  *)
(* calls counts the requests sent to the daemon, written the messages       *)
(* handed to the stream's write_in.  Every await on the daemon is a point   *)
(* where the other tasks of the event loop run.                             *)

Receivers == 1..MaxReceivers

\* the outcomes of one daemon request inside contextlib.suppress(DockerError)
DaemonOutcomes == {"ok", "DockerError"}

\* Container.start up to the first await on the new handle: create, attach
start_create(c) ==
    [c EXCEPT !.handle = TRUE, !.stream = TRUE, !.starting = "created",
              !.calls = @ + 1]

\* Container.start, "await self._container.start()" and create_task(_receive)
start_run(c) ==
    IF ~c.handle
    THEN [c EXCEPT !.starting = "AttributeError"]
    ELSE [c EXCEPT !.starting = "started", !.receiver = "spawned",
                   !.calls = @ + 1]

\* Container._receive, the test before the loop
receive_begin(c) ==
    IF ~c.handle \/ ~c.stream
    THEN [c EXCEPT !.receiver = "returned"]
    ELSE [c EXCEPT !.receiver = "reading"]

\* The None branch of _receive with `self.running = False` left out
reader_eof_running(c) ==
    [c EXCEPT !.eof = TRUE, !.receiver = "returned"]

\* Container._receive on a None message, next to the close() of _output
reader_eof(c) ==
    [c EXCEPT !.eof = TRUE, !.running = FALSE, !.receiver = "returned"]

\* Container.send
send(c) ==
    IF ~c.handle \/ ~c.stream
    THEN c
    ELSE [c EXCEPT !.written = @ + 1]

\* what write_in can answer: the stream's other end is gone after EOF
write_in_outcomes(c) ==
    IF ~c.handle \/ ~c.stream
    THEN {""}
    ELSE IF c.eof THEN {"", "error"} ELSE {""}

\* Container.resize
resize(c) ==
    IF ~c.handle
    THEN c
    ELSE [c EXCEPT !.resized = @ + 1, !.calls = @ + 1]

\* Container.stop from the call to its first await
stop_begin(c, t) ==
    IF ~c.handle
    THEN [c EXCEPT !.stops[t] = "returned"]
    ELSE [c EXCEPT !.stops[t] = "killing", !.calls = @ + 1]

\* Container.stop from one await to the next: "self._container.wait()" and
\* "self._container.delete()" read the handle again
stop_step(c, t) ==
    CASE c.stops[t] = "killing" ->
           IF ~c.handle
           THEN [c EXCEPT !.stops[t] = "AttributeError"]
           ELSE [c EXCEPT !.stops[t] = "waiting", !.calls = @ + 1]
      [] c.stops[t] = "waiting" ->
           IF ~c.handle
           THEN [c EXCEPT !.stops[t] = "AttributeError"]
           ELSE [c EXCEPT !.stops[t] = "deleting", !.calls = @ + 1]
      [] c.stops[t] = "deleting" ->
           [c EXCEPT !.stops[t] = "returned", !.handle = FALSE]
      [] OTHER -> c

InitContainer == InitStream

ContainerFrame ==
    UNCHANGED <<eloVars, reportVars, storeVars, now, managerVars, over,
                catalogue, socket, calls, replacing, files>>

ContainerStartCreate ==
    /\ container.starting = "new"
    /\ container' = start_create(container)
    /\ last' = [op |-> "create", value |-> 0, owns |-> FALSE, out |-> "ok"]
    /\ UNCHANGED streamVars
    /\ ContainerFrame

ContainerStartRun ==
    /\ container.starting = "created"
    /\ container' = start_run(container)
    /\ last' = [op |-> "start", value |-> 0, owns |-> FALSE,
                out |-> container'.starting]
    /\ UNCHANGED streamVars
    /\ ContainerFrame

ContainerReceiveBegin ==
    /\ container.receiver = "spawned"
    /\ container' = receive_begin(container)
    /\ last' = [op |-> "_receive", value |-> 0, owns |-> FALSE,
                out |-> container'.receiver]
    /\ UNCHANGED streamVars
    /\ ContainerFrame

ContainerReadMessage ==
    /\ container.receiver = "reading"
    /\ Len(items) < MaxOutput
    /\ append(Len(items) + 1)
    /\ UNCHANGED <<closed, container>>
    /\ ContainerFrame

ContainerReadEof ==
    /\ container.receiver = "reading"
    /\ close
    /\ container' = reader_eof(container)
    /\ UNCHANGED items
    /\ ContainerFrame

ContainerSend ==
    /\ container.written < MaxWrites
    /\ container' = send(container)
    /\ \E out \in write_in_outcomes(container) :
         last' = [op |-> "send", value |-> container.written, owns |-> FALSE,
                  out |-> out]
    /\ UNCHANGED streamVars
    /\ ContainerFrame

ContainerResize ==
    /\ container.resized < MaxResizes
    /\ container' = resize(container)
    /\ last' = [op |-> "resize", value |-> container.resized, owns |-> FALSE,
                out |-> ""]
    /\ UNCHANGED streamVars
    /\ ContainerFrame

ContainerStopBegin ==
    /\ \E t \in StopTasks :
         /\ container.stops[t] = "idle"
         /\ container' = stop_begin(container, t)
         /\ last' = [op |-> "stop", value |-> t, owns |-> FALSE,
                     out |-> container'.stops[t]]
    /\ UNCHANGED streamVars
    /\ ContainerFrame

ContainerStopStep ==
    /\ \E t \in StopTasks, outcome \in DaemonOutcomes :
         /\ container.stops[t] \in {"killing", "waiting", "deleting"}
         /\ container' = stop_step(container, t)
         /\ last' = [op |-> "stop_step", value |-> t, owns |-> FALSE,
                     out |-> container'.stops[t], daemon |-> outcome]
    /\ UNCHANGED streamVars
    /\ ContainerFrame

\* Container.receive() handed to "async for": subscription, replay, wait
ContainerReceive ==
    /\ \E s \in Receivers : aiter(s)
    /\ UNCHANGED <<items, closed>>
    /\ StreamFrame

ContainerReceiveReplay ==
    /\ \E s \in Receivers : replay_next(s)
    /\ UNCHANGED <<items, closed>>
    /\ StreamFrame

ContainerReceiveNext ==
    /\ \E s \in Receivers : queue_next(s)
    /\ UNCHANGED <<items, closed>>
    /\ StreamFrame

NextContainer ==
    \/ ContainerStartCreate
    \/ ContainerStartRun
    \/ ContainerReceiveBegin
    \/ ContainerReadMessage
    \/ ContainerReadEof
    \/ ContainerSend
    \/ ContainerResize
    \/ ContainerStopBegin
    \/ ContainerStopStep
    \/ ContainerReceive
    \/ ContainerReceiveReplay
    \/ ContainerReceiveNext

SpecContainer == InitContainer /\ [][NextContainer]_vars

\* the consumer loops of api.py run on the event loop until they return
SpecContainerLive ==
    SpecContainer /\ \A s \in Receivers : WF_vars(SubscriberGoesOn(s))

----------------------------------------------------------------------------
(* api.py: GamebattleApi.ws, one WebSocket bridged to the first game of a   *)
(* running session. `socket.frames` are the frames the server has sent,     *)
(* `socket.state` is "closed" once the server has called websocket.close()  *)
(* and "aborted" when the handler ended with an exception.                  *)

Tokens == Users \cup {"bad"}

\* auth.verify(token): the email of a verified token, or None (<<>>)
verify(token) == IF token \in Users THEN <<token>> ELSE <<>>

\* websocket.send_json on a socket the client has left: the frame is dropped
\* or the call raises, depending on the server underneath
SendOutcomes(sock) == IF sock.client THEN {"sent"} ELSE {"dropped", "raised"}

\* ws from accept() to the await of asyncio.wait
ws_begin(sock, ss, token, session_id, game_id) ==
    LET owner == verify(token)
        game == get_game(ss, owner[1], session_id, game_id)
    IN  IF owner = <<>>
        THEN [sock EXCEPT !.handler = "returned", !.cause = "token",
                          !.frames = Append(@, "bye"), !.state = "closed"]
        ELSE IF game.err = "KeyError"
        THEN [sock EXCEPT !.handler = "returned", !.cause = "session",
                          !.frames = Append(@, "bye"), !.state = "closed"]
        ELSE IF game.err # ""
        THEN [sock EXCEPT !.handler = "raised", !.cause = "game",
                          !.state = "aborted"]
        ELSE [sock EXCEPT !.handler = "waiting", !.state = "open",
                          !.send_task = "running", !.receive_task = "running"]

\* asyncio.wait(..., return_when=FIRST_COMPLETED) returns and ws ends
ws_end(sock) == [sock EXCEPT !.handler = "returned"]

\* _ws_receive, one message of game.receive() sent as a stdout frame
ws_receive_message(sock, outcome) ==
    CASE outcome = "sent" -> [sock EXCEPT !.frames = Append(@, "stdout"),
                                          !.position = @ + 1]
      [] outcome = "dropped" -> [sock EXCEPT !.position = @ + 1]
      [] OTHER -> [sock EXCEPT !.receive_task = "failed"]

\* _ws_receive after the loop: the bye frame and websocket.close()
ws_receive_end(sock, outcome) ==
    CASE outcome = "sent" -> [sock EXCEPT !.frames = Append(@, "bye"),
                                          !.state = "closed",
                                          !.receive_task = "done"]
      [] outcome = "dropped" -> [sock EXCEPT !.state = "closed",
                                             !.receive_task = "done"]
      [] OTHER -> [sock EXCEPT !.receive_task = "failed"]

\* The kinds of text the client sends: stdin and resize messages, and text
\* that _ws_send skips
MessageKinds == {"stdin", "resize", "skipped"}

\* _ws_send, one message of websocket.iter_text(): Game.send passes stdin on
\* to the container; Game has no resize, so the call raises AttributeError
ws_send_message(sock, kind) ==
    IF kind = "resize" THEN [sock EXCEPT !.send_task = "failed"] ELSE sock

InitBridge ==
    /\ initial = DefaultInitial * 1000
    /\ ratings = <<>>
    /\ runs = <<>>
    /\ seen_games = <<>>
    /\ now = 0
    /\ excluded = {}
    /\ reports = [t \in Teams |-> <<>>]
    /\ store_kind = "redis"
    /\ preferences = <<>>
    /\ bound = TRUE
    /\ items = <<>>
    /\ closed = FALSE
    /\ sub = <<>>
    /\ sessions = (1 :> Session("v1", <<"B", "C">>, 0))
    /\ launching = <<>>
    /\ created = 1
    /\ alive = started(1, <<"B", "C">>)
    /\ over = {}
    /\ catalogue = <<"A", "B", "C">>
    /\ socket = NewSocket
    /\ calls = NoCalls
    /\ replacing = <<>>
    /\ container = start_run(start_create(NewContainer))
    /\ files = <<>>
    /\ last = NoOp

BridgeFrame ==
    UNCHANGED <<eloVars, reportVars, storeVars, now, managerVars, over,
                catalogue, calls, replacing, files>>

BridgeOpen ==
    /\ socket.handler = "idle"
    /\ \E token \in Tokens, session_id \in SessionIds, game_id \in GameIndexes :
         /\ socket' = ws_begin(socket, sessions, token, session_id, game_id)
         /\ last' = [op |-> "ws", value |-> token, owns |-> FALSE,
                     out |-> socket'.handler, id |-> session_id,
                     index |-> game_id]
    /\ UNCHANGED <<streamVars, container>>
    /\ BridgeFrame

BridgeWaitReturns ==
    /\ socket.handler = "waiting"
    /\ socket.send_task # "running" \/ socket.receive_task # "running"
    /\ socket' = ws_end(socket)
    /\ last' = [op |-> "wait", value |-> 0, owns |-> FALSE,
                out |-> socket'.handler]
    /\ UNCHANGED <<streamVars, container>>
    /\ BridgeFrame

BridgeClientMessage ==
    /\ socket.send_task = "running"
    /\ socket.client
    /\ socket.state = "open"
    /\ container.written < MaxWrites
    /\ \E kind \in MessageKinds :
         /\ socket' = ws_send_message(socket, kind)
         /\ container' = IF kind = "stdin" THEN send(container) ELSE container
         /\ last' = [op |-> "ws_send", value |-> kind, owns |-> FALSE,
                     out |-> socket'.send_task]
    /\ UNCHANGED streamVars
    /\ BridgeFrame

\* The client goes away without a close from the server.
BridgeClientLeaves ==
    /\ socket.state = "open"
    /\ socket.client
    /\ socket' = [socket EXCEPT !.client = FALSE]
    /\ last' = [op |-> "disconnect", value |-> 0, owns |-> FALSE, out |-> ""]
    /\ UNCHANGED <<streamVars, container>>
    /\ BridgeFrame

\* websocket.iter_text() ends when the socket is disconnected.
BridgeSendEnds ==
    /\ socket.send_task = "running"
    /\ ~socket.client \/ socket.state = "closed"
    /\ socket' = [socket EXCEPT !.send_task = "done"]
    /\ last' = [op |-> "ws_send", value |-> "end", owns |-> FALSE,
                out |-> "done"]
    /\ UNCHANGED <<streamVars, container>>
    /\ BridgeFrame

BridgeReceiveMessage ==
    /\ socket.receive_task = "running"
    /\ socket.position < Len(items)
    /\ \E outcome \in SendOutcomes(socket) :
         /\ socket' = ws_receive_message(socket, outcome)
         /\ last' = [op |-> "ws_receive", value |-> items[socket.position + 1],
                     owns |-> FALSE, out |-> outcome]
    /\ UNCHANGED <<streamVars, container>>
    /\ BridgeFrame

BridgeReceiveEnds ==
    /\ socket.receive_task = "running"
    /\ socket.position = Len(items)
    /\ closed
    /\ \E outcome \in SendOutcomes(socket) :
         /\ socket' = ws_receive_end(socket, outcome)
         /\ last' = [op |-> "ws_receive", value |-> None, owns |-> FALSE,
                     out |-> outcome]
    /\ UNCHANGED <<streamVars, container>>
    /\ BridgeFrame

NextBridge ==
    \/ BridgeOpen
    \/ BridgeWaitReturns
    \/ BridgeClientMessage
    \/ BridgeClientLeaves
    \/ BridgeSendEnds
    \/ BridgeReceiveMessage
    \/ BridgeReceiveEnds
    \/ ContainerReceiveBegin
    \/ ContainerReadMessage
    \/ ContainerReadEof

SpecBridge == InitBridge /\ [][NextBridge]_vars

----------------------------------------------------------------------------
(* preference_store_redis.py: calls of set and delete that overlap. A call  *)
(* is a task of the event loop; it gives way at each await of the Redis     *)
(* client, and what it does between two awaits is one step. clear and       *)
(* register of the rating system await nothing, so build_system is one step *)
(* with the resumption before it.                                           *)

\* The preferences handed to set: made by set_preference at time `now`
CallValues ==
    {Preference(g, 1000, a, now) : g \in RoundPairs, a \in {"v2", "v3"}}

\* set: `await self.client.exists(...)` answered, hmset sent
redis_set_exists(ps, key, value) ==
    [pc |-> "hmset", op |-> "set", key |-> key, value |-> value,
     preference_exists |-> key \in keys_of(ps), snapshot |-> <<>>]

\* delete: `await self.client.delete(...)` applied by the server
redis_delete_sent(key) ==
    [pc |-> "read", op |-> "delete", key |-> key, value |-> <<>>,
     preference_exists |-> TRUE, snapshot |-> <<>>]

\* set after `await self.client.hmset(...)`: an edit goes on to read the log,
\* a new key to register
redis_set_written(call) ==
    [call EXCEPT !.pc = IF call.preference_exists THEN "read" ELSE "register"]

\* `await self.sorted_preferences()` answered by the server
redis_read(call, ps) ==
    [call EXCEPT !.pc = "build", !.snapshot = sorted_preferences(ps)]

\* the events of the last step of a call: build_system, or register(value)
redis_last_events(call) ==
    IF call.pc = "build" THEN rebuild_events(call.snapshot)
    ELSE <<RegisterEvent(call.value, FALSE)>>

CallFrame ==
    UNCHANGED <<initial, reportVars, store_kind, bound, streamVars, managerVars,
                over, catalogue, socket, replacing, container, files>>

CallSetBegin ==
    /\ \E c \in CallIds, key \in Keys, value \in CallValues :
         /\ calls[c].pc = "idle"
         /\ \A d \in CallIds : d < c => calls[d].pc # "idle"
         /\ calls' = [calls EXCEPT ![c] = redis_set_exists(preferences, key, value)]
         /\ last' = [op |-> "set", key |-> key, value |-> value, owns |-> FALSE,
                     out |-> "exists", id |-> c]
    /\ now' = now + 1
    /\ UNCHANGED <<eloVars, preferences>>
    /\ CallFrame

CallSetWrite ==
    /\ \E c \in CallIds :
         /\ calls[c].pc = "hmset"
         /\ preferences' = stored(preferences, calls[c].key, calls[c].value)
         /\ calls' = [calls EXCEPT ![c] = redis_set_written(calls[c])]
         /\ last' = [op |-> "set", key |-> calls[c].key, value |-> calls[c].value,
                     owns |-> FALSE, out |-> "hmset", id |-> c]
    /\ UNCHANGED <<eloVars, now>>
    /\ CallFrame

CallDeleteBegin ==
    /\ \E c \in CallIds, key \in Keys :
         /\ calls[c].pc = "idle"
         /\ \A d \in CallIds : d < c => calls[d].pc # "idle"
         /\ preferences' = removed(preferences, key)
         /\ calls' = [calls EXCEPT ![c] = redis_delete_sent(key)]
         /\ last' = [op |-> "delete", key |-> key, value |-> <<>>, owns |-> FALSE,
                     out |-> "delete", id |-> c]
    /\ UNCHANGED <<eloVars, now>>
    /\ CallFrame

CallRead ==
    /\ \E c \in CallIds :
         /\ calls[c].pc = "read"
         /\ calls' = [calls EXCEPT ![c] = redis_read(calls[c], preferences)]
         /\ last' = [op |-> calls[c].op, key |-> calls[c].key,
                     value |-> calls[c].value, owns |-> FALSE, out |-> "read",
                     id |-> c]
    /\ UNCHANGED <<eloVars, preferences, now>>
    /\ CallFrame

CallEnd ==
    /\ \E c \in CallIds :
         /\ calls[c].pc \in {"build", "register"}
         /\ SetEngine(deliver(engine, initial, redis_last_events(calls[c])))
         /\ calls' = [calls EXCEPT ![c] = [pc |-> "done"]]
         /\ last' = [op |-> calls[c].op, key |-> calls[c].key,
                     value |-> calls[c].value, owns |-> FALSE, out |-> "ok",
                     id |-> c]
    /\ UNCHANGED <<preferences, now>>
    /\ CallFrame

NextCalls ==
    \/ CallSetBegin
    \/ CallSetWrite
    \/ CallDeleteBegin
    \/ CallRead
    \/ CallEnd

SpecCalls == InitSession /\ [][NextCalls]_vars

----------------------------------------------------------------------------
(* C3: once a voter has a game in seen_games, every later register of a     *)
(* preference of that voter that mentions a seen game leaves ratings and    *)
(* runs unchanged and still adds both of its games to the voter's set.      *)
VoterIdempotence ==
    [][(/\ last'.op = "register"
        /\ Get(seen_games, last'.value.author, {})
              \cap Range(last'.value.games) # {})
       => /\ ratings' = ratings
          /\ runs' = runs
          /\ ~last'.out
          /\ seen_games'[last'.value.author]
               = Get(seen_games, last'.value.author, {})
                   \cup Range(last'.value.games)]_vars

\* A vote that mentions a game never rated before is not counted, and not
\* because of owns_game: nothing has been counted since the last clear, so
\* the voter's seen game came from an uncounted vote.
VoterIdempotenceWitness ==
    /\ last.op = "register"
    /\ ~last.out
    /\ ~last.owns
    /\ ratings = <<>>
    /\ Cardinality(Get(seen_games, last.value.author, {})) = 3

(* C4: after any register every rating is >= 0. *)
NonNegativeRatings == \A g \in DOMAIN ratings : ratings[g] >= 0

\* A counted register whose loser would have gone below zero: the ratings
\* were shifted so that the loser sits at 0.
NonNegativeWitness ==
    /\ last.op = "register"
    /\ last.out
    /\ last.value.first_score = 1000
    /\ initial < 16000
    /\ ratings[last.value.games[2]] = 0
    /\ ratings[last.value.games[1]] > initial

(* C1: with a rating system bound and the log stored in timestamp order     *)
(* (every set so far was of a new key, in timestamp order), the engine's    *)
(* ratings are those of clearing it and replaying the stored log in         *)
(* timestamp order.                                                         *)
RatingDeterminism ==
    (bound /\ all_preferences(preferences) = sorted_preferences(preferences))
    => ratings = build_system(sorted_preferences(preferences), initial).ratings

(* C2: a preference set under a new key whose author is a member of the     *)
(* team of either game leaves ratings and runs unchanged, and both of its   *)
(* games are in its author's seen_games afterwards.                         *)
SelfVoteImmunity ==
    [][(/\ last'.op = "set"
        /\ ~last'.existed
        /\ bound
        /\ author_owns(last'.value))
       => /\ ratings' = ratings
          /\ runs' = runs
          /\ Range(last'.value.games) \subseteq seen_games'[last'.value.author]]_vars

(* C5: what a subscriber has observed is always a prefix of the appended    *)
(* items, what is pending on its queue is exactly the rest, and once its    *)
(* iterator has ended it has observed every item appended up to close, in   *)
(* append order, with no duplicate and no gap.                              *)
pending(s) == SelectSeq(sub[s].queue, LAMBDA x : x # None)

ReplayTotality ==
    \A s \in DOMAIN sub :
        /\ sub[s].seen = SubSeq(items, 1, Len(sub[s].seen))
        /\ sub[s].pc = "wait" => sub[s].seen \o pending(s) = items
        /\ sub[s].pc = "done" => closed /\ sub[s].seen = items

\* A subscriber that arrived after the first item and before the last one
\* has ended having observed all of them.
ReplayTotalityWitness ==
    \E s \in DOMAIN sub :
        /\ sub[s].pc = "done"
        /\ 0 < sub[s].at
        /\ sub[s].at < Len(items)
        /\ sub[s].seen = items

(* C7: a strategy called with avoid = S never returns a game whose team_id  *)
(* is in S.                                                                 *)
AvoidContract ==
    last.op = "launch" => Range(last.value) \cap last.avoid = {}

(* C8: an excluded team_id is not in the output of top and not among the    *)
(* games returned by elo_pair, whatever the requester, capacity and avoid   *)
(* set.                                                                     *)
ExclusionVisibility ==
    /\ last.op = "top" => Range(last.value) \cap last.excluded = {}
    /\ (last.op = "launch" /\ last.strategy.name = "elo_pair")
          => Range(last.value) \cap last.excluded = {}

(* C6: get_session for a session owned by another user has the outcome it   *)
(* has for an id that is not registered: the same KeyError, and the session *)
(* map is left as it was.                                                   *)
OwnershipHiding ==
    [][(/\ last'.op = "get_session"
        /\ last'.id \in DOMAIN sessions
        /\ sessions[last'.id].owner # last'.value)
       => /\ last'.out.err
               = get_session(without(sessions, last'.id), last'.value, last'.id).err
          /\ last'.out.session = <<>>
          /\ sessions' = sessions]_vars

OwnershipHidingWitness ==
    /\ last.op = "get_session"
    /\ last.id \in DOMAIN sessions
    /\ sessions[last.id].owner # last.value
    /\ last.out.err = "KeyError"

(* C10: a session created at t0 and not stopped is in no user's sessions at  *)
(* any time from t0 + ttl on.                                               *)
SessionTtlExpiry ==
    \A user_id \in Users :
        \A id \in user_sessions(sessions, user_id) :
            now < sessions[id].launch_time + session_ttl

(* C9: right after an accepted add_game_file the team has at most 64 files, *)
(* each of at most 128 KiB; a rejected add_game_file leaves the files as    *)
(* they were.                                                               *)
FileQuota ==
    last.op = "add_game_file" =>
        IF last.out = ""
        THEN /\ file_count(files) <= max_files
             /\ \A size \in BagToSet(files) : size <= max_file_bytes
        ELSE files = last.before

(* C11: the sessions registered for one owner never number more than       *)
(* max_sessions_per_user, also while create_session calls of that owner are *)
(* suspended in Session.launch; a create at the quota raises                *)
(* TooManySessionsError and leaves the session map as it was.               *)
SessionQuota ==
    [][/\ \A owner \in Users :
            Cardinality(user_sessions(sessions', owner)) <= max_sessions_per_user
       /\ (last'.op = "create_session" /\ last'.out = "TooManySessionsError")
            => sessions' = sessions]_vars

(* C12: no session without games is ever registered: a strategy that       *)
(* returns the empty list makes create_session fail with NoGamesAvailable.  *)
NoEmptySession ==
    /\ \A id \in DOMAIN sessions : sessions[id].games # <<>>
    /\ (last.op = "create_session" /\ last.out = "")
         => sessions[last.id].games # <<>>

(* C13: get_game returns a game only for a session that exists, is owned   *)
(* by the caller, and an index with 0 <= index < len(games); every other    *)
(* index fails with the error a missing session gives.                      *)
GameIndexChecked ==
    last.op = "get_game" =>
        IF /\ last.id \in DOMAIN sessions
           /\ sessions[last.id].owner = last.value
           /\ 0 <= last.index
           /\ last.index < Len(sessions[last.id].games)
        THEN last.out = [err |-> "", game |-> <<sessions[last.id].games[last.index + 1]>>]
        ELSE last.out = [err |-> "KeyError", game |-> <<>>]

(* C14: stop_session with an owner other than the session's fails as it    *)
(* does for an unknown id, and leaves the session registered and its games  *)
(* running.                                                                 *)
StopOwnerCheck ==
    [][(/\ last'.op = "stop_session"
        /\ last'.id \in DOMAIN sessions
        /\ last'.value # AnyOwner
        /\ sessions[last'.id].owner # last'.value)
       => /\ last'.out = "KeyError"
          /\ last'.out = stop_session(without(sessions, last'.id), alive,
                                       last'.id, last'.value).err
          /\ sessions' = sessions
          /\ alive' = alive]_vars

StopOwnerCheckWitness ==
    /\ last.op = "stop_session"
    /\ last.out = "KeyError"
    /\ last.id \in DOMAIN sessions
    /\ last.value # AnyOwner
    /\ sessions[last.id].owner # last.value
    /\ \E game \in alive : game[1] = last.id

(* C15: when stop_session returns, the session is out of the registry and   *)
(* every game of the session has been stopped.                              *)
StopKillsGames ==
    [][(last'.op = "stop_session" /\ last'.out = "")
       => /\ last'.id \notin DOMAIN sessions'
          /\ \A game \in alive' : game[1] # last'.id]_vars

(* C16: append on a closed stream fails with an error and leaves the items  *)
(* and every subscriber's queue as they were.                               *)
AppendAfterCloseFails ==
    [][(closed /\ last'.op = "append")
       => /\ last'.out = "ValueError"
          /\ items' = items
          /\ sub' = sub]_vars

AppendAfterCloseWitness ==
    /\ closed
    /\ last.op = "append"
    /\ last.out = "ValueError"
    /\ items # <<>>
    /\ \E s \in Subs : sub[s].pc = "wait" /\ pending(s) # <<>>

(* C17: once the stream is closed, every iterator that has been started,    *)
(* before or after the close, replaying or waiting, eventually ends, and    *)
(* has then yielded all the items.                                          *)
CloseEndsIterators ==
    \A s \in Subs :
        (closed /\ sub[s].pc \in {"replay", "wait"})
            ~> (sub[s].pc = "done" /\ sub[s].seen = items)

CloseEndsIteratorsWitness ==
    /\ closed
    /\ Len(items) >= 2
    /\ \A s \in Subs : sub[s].pc = "done" /\ sub[s].seen = items
    /\ \E s \in Subs : sub[s].at < Len(items)


(* C18: once the reader of a container has returned EOF the container is   *)
(* not running and its output is closed, and every receive that is          *)
(* replaying then, begun after the EOF included, yields every recorded      *)
(* message and ends.                                                        *)
EofEndsReceives ==
    /\ [](container.eof => (~container.running /\ closed))
    /\ \A s \in Receivers :
         (container.eof /\ sub[s].pc = "replay")
             ~> (sub[s].pc = "done" /\ sub[s].seen = items)

EofEndsReceivesWitness ==
    \E s \in Receivers :
        /\ container.eof
        /\ last.op = "aiter"
        /\ sub[s].pc = "replay"
        /\ sub[s].seen = <<>>
        /\ Len(items) = MaxOutput

(* C19: after the reader of a container has returned EOF, a send writes     *)
(* nothing to the container's input and raises nothing.                     *)
SendAfterEofNoOp ==
    [][(container.eof /\ last'.op = "send")
          => (container'.written = container.written /\ last'.out = "")]_vars

(* C20: a call of Container.stop ends by returning with the handle cleared, *)
(* whatever the daemon answers, and on a started container whose handle is  *)
(* cleared a stop, a send or a resize sends nothing to the daemon and       *)
(* writes nothing.                                                          *)
StopIdempotent ==
    [][/\ \A t \in StopTasks :
            (container.stops[t] # container'.stops[t]
                 /\ container'.stops[t] \notin {"killing", "waiting", "deleting"})
                => (container'.stops[t] = "returned" /\ ~container'.handle)
       /\ (container.starting # "new" /\ ~container.handle
               /\ last'.op \in {"stop", "send", "resize"})
            => (container'.calls = container.calls
                  /\ container'.written = container.written)]_vars


(* C21: with a rating system bound, a set of a key that exists and a delete *)
(* that returns deliver one clear and then one register per preference of   *)
(* the log as it now is, and nothing else; a set of a new key delivers one  *)
(* register of the new preference and no clear.                             *)
event_types(events) == [i \in DOMAIN events |-> events[i].type]

registered(events) ==
    {events[i].p : i \in {j \in DOMAIN events : events[j].type = "register"}}

EditKeepsPosition ==
    (bound /\ last.op = "set" /\ last.existed)
    => ratings = rebuild(preferences, initial).ratings


(* C23: set_preference writes a preference only for a session of the caller *)
(* that is over when it is called, and a call for a session that is not     *)
(* over is rejected and changes neither the store nor the ratings.          *)
OnlyOverSessionsVote ==
    [][(last'.op \in {"set", "set_preference"})
          => /\ (last'.op = "set" \/ preferences' # preferences)
                  => /\ last'.key \in DOMAIN sessions
                     /\ Session_over(sessions, over, last'.key)
             /\ (last'.key \in DOMAIN sessions
                   /\ ~Session_over(sessions, over, last'.key))
                  => /\ last'.op = "set_preference"
                     /\ last'.out # ""
                     /\ UNCHANGED <<preferences, ratings, runs, seen_games>>]_vars

OnlyOverSessionsWitness ==
    /\ last.op = "set"
    /\ last.key \in DOMAIN sessions
    /\ Len(sessions[last.key].games) = 2
    /\ Session_over(sessions, over, last.key)
    /\ preferences # <<>>
    /\ ratings # <<>>


(* C24: no session holds the same team's game at both of its positions, and *)
(* no stored preference names the same game twice.                          *)
DistinctGames ==
    /\ \A id \in DOMAIN sessions :
         Len(sessions[id].games) >= 2
            => sessions[id].games[1] # sessions[id].games[2]
    /\ \A i \in DOMAIN preferences :
         preferences[i].value.games[1] # preferences[i].value.games[2]


(* C25: elo_pair returns no game that has a report written by the           *)
(* requester.                                                               *)
ReportedNeverReturned ==
    (last.op = "launch" /\ last.strategy.name = "elo_pair")
    => \A i \in DOMAIN last.value :
          last.owner \notin Range(reports[last.value[i]])

(* C26: every game elo_pair returns is of a team the requester is not a     *)
(* member of and is not among the games the requester has already rated.    *)
NeverOwnNeverSeen ==
    (last.op = "launch" /\ last.strategy.name = "elo_pair")
    => \A i \in DOMAIN last.value :
          /\ ~allowed_access(last.value[i], last.owner)
          /\ last.value[i] \notin Get(seen_games, last.owner, {})


(* C27: the two games elo_pair returns for capacity 2 are a candidate pair  *)
(* that has the smallest rating difference among the candidate pairs with   *)
(* its total run count, and the fewest total runs among the candidate pairs *)
(* with its rating difference.                                              *)
rating_difference(pair) ==
    Abs(Get(ratings, pair[1], initial) - Get(ratings, pair[2], initial))

total_runs(pair) == Get(runs, pair[1], 0) + Get(runs, pair[2], 0)

candidate_pairs(owner) ==
    Range(pairs_from(remove_reported(available_games(engine, excluded, owner, {}),
                                     1, reports, owner), 1, 1))

PrefersCloseSeldom ==
    (last.op = "launch" /\ Len(last.value) = 2)
    => \A pair \in candidate_pairs(last.owner) :
          /\ total_runs(pair) = total_runs(last.value)
                => rating_difference(last.value) <= rating_difference(pair)
          /\ rating_difference(pair) = rating_difference(last.value)
                => total_runs(last.value) <= total_runs(pair)

(* C28: after voter v2, on no team, has set (A,B) 1.0, (B,C) 0.0 and (A,C)  *)
(* 1.0 under three session ids into an empty log, each of A, B, C has been  *)
(* counted twice and has a rating, A above B above C, and the leaderboard   *)
(* reads A, B, C.                                                           *)
SimpleEloLog ==
    /\ Len(preferences) = 3
    /\ \A i \in 1..3 : preferences[i].value.author = "v2"
    /\ preferences[1].value.games = <<"A", "B">>
    /\ preferences[1].value.first_score = 1000
    /\ preferences[2].value.games = <<"B", "C">>
    /\ preferences[2].value.first_score = 0
    /\ preferences[3].value.games = <<"A", "C">>
    /\ preferences[3].value.first_score = 1000

SimpleEloRound ==
    SimpleEloLog
    => /\ DOMAIN ratings = {"A", "B", "C"}
       /\ \A g \in {"A", "B", "C"} : Get(runs, g, 0) = 2
       /\ ratings["A"] > ratings["B"]
       /\ ratings["B"] > ratings["C"]
       /\ last.op = "top" => last.value = <<"A", "B", "C">>


(* C29: once ws has returned from waiting for its two tasks, neither the    *)
(* client->game task nor the game->client task is still running, and the    *)
(* socket, if the client is still there, is closed with a bye frame as the  *)
(* last frame sent.                                                         *)
BridgeStopsTogether ==
    (socket.handler = "returned" /\ socket.cause = "")
    => /\ socket.send_task # "running"
       /\ socket.receive_task # "running"
       /\ socket.client
            => /\ socket.state = "closed"
               /\ socket.frames # <<>>
               /\ socket.frames[Len(socket.frames)] = "bye"

(* C30: when ws ends over an invalid token, a missing session or a missing  *)
(* game, or _ws_receive ends with the output stream on a connected socket,  *)
(* the frames sent hold exactly one bye, it is the last frame, and the      *)
(* socket is closed.                                                        *)
bye_frames(sock) == {i \in DOMAIN sock.frames : sock.frames[i] = "bye"}

ByeThenClose ==
    (\/ socket.cause \in {"token", "session", "game"}
     \/ socket.receive_task = "done" /\ socket.client)
    => /\ bye_frames(socket) = {Len(socket.frames)}
       /\ socket.frames # <<>>
       /\ socket.state = "closed"


(* C31: in every state each game of a session has its over flag set exactly *)
(* when its container is not running, and so Session.over holds exactly     *)
(* when none of the session's games is running.                             *)
OverIffNotRunning ==
    \A id \in DOMAIN sessions :
       /\ \A i \in DOMAIN sessions[id].games :
             (<<id, i>> \in over) <=> (<<id, i>> \notin alive)
       /\ Session_over(sessions, over, id)
             <=> (\A i \in DOMAIN sessions[id].games : <<id, i>> \notin alive)


(* C32: check_file_name(name, strict) is true exactly for the names of at   *)
(* most 10 components, each of length 1..255, of allowed characters only    *)
(* (the space allowed when not strict) and with at least one letter, digit, *)
(* "_" or "-"; with an empty, "." or ".." component, or in strict mode with *)
(* a space, the name is refused.                                            *)
separators(name) == {i \in DOMAIN name : name[i] = "/"}

\* the first and last position of every component of the name
component_spans(name) ==
    LET ends == separators(name) \cup {Len(name) + 1}
        next_end(from) == CHOOSE e \in ends :
                             e >= from /\ \A o \in ends : o >= from => e <= o
    IN  {<<from, next_end(from) - 1>> :
           from \in {1} \cup {i + 1 : i \in separators(name)}}

span_accepted(name, span, strict) ==
    /\ span[2] - span[1] + 1 \in 1..255
    /\ \A i \in span[1]..span[2] :
          name[i] \in {"a", "."} \/ (~strict /\ name[i] = " ")
    /\ \E i \in span[1]..span[2] : name[i] = "a"

name_accepted(name, strict) ==
    /\ Cardinality(component_spans(name)) <= 10
    /\ \A span \in component_spans(name) : span_accepted(name, span, strict)

FileNameContract ==
    last.op = "check_file_name"
    => /\ last.out = name_accepted(last.value, last.strict)
       /\ (\E span \in component_spans(last.value) :
              \/ span[2] < span[1]
              \/ \A i \in span[1]..span[2] : last.value[i] = ".")
            => ~last.out
       /\ (last.strict /\ \E i \in DOMAIN last.value : last.value[i] = " ")
            => ~last.out

FileNameWitness ==
    /\ last.op = "check_file_name"
    /\ last.out
    /\ last.strict
    /\ Cardinality(component_spans(last.value)) = 10
    /\ \E span \in component_spans(last.value) : span[2] - span[1] + 1 = 255


(* C33: replace_game hands the strategy an avoid set holding the team of    *)
(* every game then in the session; when it ends, the list has the length it *)
(* had, the game at every other index is the same game in the same state,   *)
(* and when the strategy gave no game the whole list is as it was.          *)
ReplaceStep ==
    LET id == last'.value[1]
        at == last'.value[2] + 1
        others == DOMAIN sessions[id].games \ {at}
    IN  /\ (last'.op = "replace_game" /\ last'.out = "")
            => \A i \in DOMAIN sessions[id].games :
                  sessions[id].games[i] \in last'.avoid
        /\ last'.op = "replaced"
            => /\ Len(sessions'[id].games) = Len(sessions[id].games)
               /\ \A i \in others :
                     /\ sessions'[id].games[i] = sessions[id].games[i]
                     /\ (<<id, i>> \in alive') = (<<id, i>> \in alive)
                     /\ (<<id, i>> \in over') = (<<id, i>> \in over)
               /\ last'.out # "" => sessions'[id].games = sessions[id].games

ReplaceKeepsOthers == [][ReplaceStep]_vars

ReplaceKeepsOthersWitness ==
    /\ last.op = "replaced"
    /\ last.out = ""
    /\ sessions[last.value[1]].games[last.value[2] + 1] \notin last.avoid
    /\ Cardinality(last.avoid) = 2


(* C34: a call of replay_with_history or of replay_excluding_authors leaves *)
(* the engine's ratings, runs and seen_games as they were before the call.  *)
ReplayStep ==
    last'.op \in {"replay_with_history", "replay_excluding_authors"}
    => /\ ratings' = ratings
       /\ runs' = runs
       /\ seen_games' = seen_games

ReplayIsPure == [][ReplayStep]_vars

ReplayIsPureWitness ==
    /\ last.op = "replay_with_history"
    /\ \E i \in DOMAIN last.value : last.value[i].counted
    /\ \E i \in DOMAIN last.value : ~last.value[i].counted
    /\ last.before = engine
    /\ \E i \in DOMAIN last.value :
          /\ last.value[i].counted
          /\ \E g \in DOMAIN ratings :
                /\ g \in DOMAIN last.value[i].elo_changes
                /\ last.value[i].elo_changes[g][2] # ratings[g]

(* C35: replay_excluding_authors with nobody excluded and no author_teams   *)
(* returns the ratings that clear followed by register (owns_game false) of *)
(* each preference in order gives, and the counted flags returned by        *)
(* replay_with_history are the values those register calls return.          *)
RECURSIVE register_returns(_, _, _)
register_returns(e, init, ps) ==
    IF ps = <<>> THEN <<>>
    ELSE <<register(e, init, Head(ps), FALSE).counted>>
           \o register_returns(register(e, init, Head(ps), FALSE), init, Tail(ps))

ReplayCountsAsRegister ==
    (last.op = "replay_with_history" /\ last.author_teams = <<>>)
    => [i \in DOMAIN last.value |-> last.value[i].counted]
         = register_returns(cleared, initial, sorted_preferences(preferences))

ReplayRatesAsRegister ==
    (/\ last.op = "replay_excluding_authors"
     /\ last.author_teams = <<>>
     /\ last.excluded_authors = {})
    => last.value
         = register_all(cleared, initial, sorted_preferences(preferences)).ratings

calls_completed == \A c \in CallIds : calls[c].pc \in {"idle", "done"}

QuiescentEngineIsReplay ==
    calls_completed
    => LET replayed == build_system(sorted_preferences(preferences), initial)
       IN  /\ ratings = replayed.ratings
           /\ runs = replayed.runs
           /\ seen_games = replayed.seen_games

(* C38: report_game with restart_game writes the report under the team of   *)
(* the game that was in the reported slot when the request was made.        *)
ReportUnderRequested ==
    (last.op = "replace_game" /\ last.out = "")
    => last.reported = last.requested

\* The order inside one request: the report is written, under the team of
\* the game then in the slot, before replace_game is started, and the end of
\* replace_game writes no report (report_game_store_late breaks it).
ReportBeforeReplacement ==
    [][LET id == last'.value[1]
           at == last'.value[2] + 1
       IN  /\ (last'.op = "replace_game" /\ last'.out = "")
               => reports' = [reports EXCEPT ![sessions[id].games[at]] =
                                                Append(@, last'.owner)]
           /\ last'.op = "replaced" => reports' = reports]_vars

(* C39: every stored preference of a live session names the games the       *)
(* session holds: no game is replaced once the preference is stored.        *)
StoredGamesStay ==
    \A i \in DOMAIN preferences :
       preferences[i].key \in DOMAIN sessions
          => preferences[i].value.games
               = <<sessions[preferences[i].key].games[1],
                   sessions[preferences[i].key].games[2]>>

\* How often one counted preference counts for a game: once when it mentions
\* the game, or once for each of its two positions that holds the game
mentions(p, g) == IF g \in {p.games[1], p.games[2]} THEN 1 ELSE 0

occurrences(p, g) ==
    (IF p.games[1] = g THEN 1 ELSE 0) + (IF p.games[2] = g THEN 1 ELSE 0)

\* One step of the engine against a way of counting: the key sets agree and
\* every runs value is at least 1; a counted register adds count(p, g) to the
\* runs of each game g and two in all; a register that is not counted changes
\* neither map; clear empties both.
RunsFollow(count(_, _)) ==
    LET added(g) == Get(runs', g, 0) - Get(runs, g, 0)
    IN  /\ DOMAIN ratings' = DOMAIN runs'
        /\ \A g \in DOMAIN runs' : runs'[g] >= 1
        /\ (last'.op = "register" /\ last'.out)
             => /\ \A g \in Teams : added(g) = count(last'.value, g)
                /\ added("A") + added("B") + added("C") = 2
        /\ (last'.op = "register" /\ ~last'.out)
             => UNCHANGED <<ratings, runs>>
        /\ last'.op = "clear" => (ratings' = <<>> /\ runs' = <<>>)

====
